---- MODULE Spec2Model ----
(***************************************************************************)
(* A model of the pattern-matching engine of lazy-nlp-pipeline:           *)
(* documents and their lazily computed token list (doc.py, tokenizer.py), *)
(* spans and span concatenation (doc.py), and the matchers of patterns.py *)
(* (TokenPattern, WordPattern, RepeatedPattern, OrPattern, Pattern).      *)
(*                                                                         *)
(* A text is a sequence of one-character strings.  A generator is         *)
(* modelled by the record [out, err, touched]: the sequence of values it  *)
(* yields, in order, the exception that ends it ("none" when it returns), *)
(* and the Pattern objects whose allow_inbetween it has re-bound.         *)
(***************************************************************************)
EXTENDS Integers, Sequences, FiniteSets, TLC

VARIABLES doc, pattern, forward, pc, tok_i, attempted, results, call, added,
          analyzers, word, writes, invoked, accesses,
          texts, patterns, docs, text_i, pattern_i, at, pending

\* The lazy-attribute framework: the registry of the NLP object, a Word
\* object, and the logs of cache writes, analyzer invocations and accesses.
lazy_vars == <<analyzers, word, writes, invoked, accesses>>

\* The frame of the generator NLP.match_patterns.
query_vars == <<texts, patterns, docs, text_i, pattern_i, at, pending>>

vars == <<doc, pattern, forward, pc, tok_i, attempted, results, call, added,
          lazy_vars, query_vars>>

(***************************************************************************)
(* Bounds                                                                  *)
(***************************************************************************)
MaxLen == 3

Alphabet == {"a", "1", ":", " "}

RECURSIVE TextsOfLen(_)
TextsOfLen(n) ==
    IF n = 0 THEN {<<>>}
    ELSE {Append(t, c) : t \in TextsOfLen(n - 1), c \in Alphabet}

Texts == UNION {TextsOfLen(n) : n \in 0..MaxLen}

(***************************************************************************)
(* Characters (the str methods and regex classes the code relies on)      *)
(***************************************************************************)
IsLetter(c) == c \in {"a", "A"}
IsDigit(c) == c \in {"1"}
IsPunct(c) == c \in {".", ",", "?", "!", ":", "\"", "'"}
IsSpaceChar(c) == c \in {" "}

LowerChar(c) == IF c = "A" THEN "a" ELSE c
Lower(s) == [i \in 1..Len(s) |-> LowerChar(s[i])]

str_isalpha(s) == Len(s) > 0 /\ \A i \in 1..Len(s) : IsLetter(s[i])
str_isnumeric(s) == Len(s) > 0 /\ \A i \in 1..Len(s) : IsDigit(s[i])
str_isspace(s) == Len(s) > 0 /\ \A i \in 1..Len(s) : IsSpaceChar(s[i])

Max(a, b) == IF a >= b THEN a ELSE b

(***************************************************************************)
(* Tokenizer                                                               *)
(***************************************************************************)
\* A variant in which a run is one character long (every letter a token of
\* its own); C23_QuantifierScan fails for it.
RunEnd_single(text, i, kind) == i + 1

\* End (exclusive, 0-based) of the longest run of characters of one class
\* starting at 0-based offset i.
RECURSIVE RunEnd(_, _, _)
RunEnd(text, i, kind) ==
    IF i < Len(text)
       /\ ((kind = "word" /\ IsLetter(text[i + 1]))
           \/ (kind = "number" /\ IsDigit(text[i + 1]))
           \/ (kind = "space" /\ IsSpaceChar(text[i + 1])))
    THEN RunEnd(text, i + 1, kind)
    ELSE i

\* token_regex.finditer(text): the successive leftmost matches <<start, end>>.
RECURSIVE finditer(_, _)
finditer(text, i) ==
    IF i >= Len(text) THEN <<>>
    ELSE LET c == text[i + 1] IN
         IF IsLetter(c) THEN <<<<i, RunEnd(text, i, "word")>>>> \o finditer(text, RunEnd(text, i, "word"))
         ELSE IF IsDigit(c) THEN <<<<i, RunEnd(text, i, "number")>>>> \o finditer(text, RunEnd(text, i, "number"))
         ELSE IF IsPunct(c) THEN <<<<i, i + 1>>>> \o finditer(text, i + 1)
         ELSE IF IsSpaceChar(c) THEN <<<<i, RunEnd(text, i, "space")>>>> \o finditer(text, RunEnd(text, i, "space"))
         ELSE finditer(text, i + 1)

RECURSIVE token_boundaries(_, _, _)
token_boundaries(matches, k, acc) ==
    IF k > Len(matches) THEN acc
    ELSE LET start == matches[k][1]
             end == matches[k][2]
             acc1 == IF start /= acc[Len(acc)] THEN Append(acc, start) ELSE acc
             acc2 == IF end /= acc1[Len(acc1)] THEN Append(acc1, end) ELSE acc1
         IN token_boundaries(matches, k + 1, acc2)

Token(text, start, end) ==
    [text |-> SubSeq(text, start + 1, end), start_char |-> start, end_char |-> end]

\* A variant that makes one token per match of token_regex and none for the
\* characters between two matches; C22_TokensPartition fails for it.
eval_tokens_matches_only(text) ==
    LET matches == finditer(text, 0)
    IN [k \in 1..Len(matches) |-> Token(text, matches[k][1], matches[k][2])]

\* The list Tokenizer.eval_tokens stores in doc.lazy_attributes['tokens'];
\* next_token / previous_token are the neighbours in this list.
eval_tokens(text) ==
    IF Len(text) = 0 THEN <<>>
    ELSE LET b0 == token_boundaries(finditer(text, 0), 1, <<0>>)
             b == IF Len(text) /= b0[Len(b0)] THEN Append(b0, Len(text)) ELSE b0
         IN [k \in 1..(Len(b) - 1) |-> Token(text, b[k], b[k + 1])]

\* The links the loop of Tokenizer.eval_tokens sets on the Token objects
\* (lines 47-51); a Token object is named by its index in the list, and a
\* link never set keeps the None of Token.__init__.
token_links(tokens) ==
    [k \in 1..Len(tokens) |->
        [previous_token |-> IF k > 1 THEN <<k - 1>> ELSE <<>>,
         next_token |-> IF k < Len(tokens) THEN <<k + 1>> ELSE <<>>]]

(***************************************************************************)
(* Documents, positions and spans                                          *)
(***************************************************************************)
ThisDoc == "doc"
OtherDoc == "other_doc"

NoAttributes == [n \in {} |-> <<>>]

Doc(text) == [id |-> ThisDoc, text |-> text, lazy_attributes |-> [n \in {} |-> <<>>]]

\* WithLazyAttributes.__getattr__ on a Doc for the name 'tokens': the cached
\* value when present, else the Tokenizer writes the cache entry.
Doc_with_tokens(d) ==
    IF "tokens" \in DOMAIN d.lazy_attributes THEN d
    ELSE [d EXCEPT !.lazy_attributes =
             [n \in DOMAIN d.lazy_attributes \cup {"tokens"} |->
                 IF n = "tokens" THEN eval_tokens(d.text) ELSE d.lazy_attributes[n]]]

doc_tokens(d) == Doc_with_tokens(d).lazy_attributes["tokens"]

Span(d, start, end, attributes) ==
    [doc |-> d, start_char |-> start, end_char |-> end, attributes |-> attributes]

span_text(text, s) == SubSeq(text, s.start_char + 1, s.end_char)

span_len(s) == s.end_char - s.start_char

set_attribute(s, name, value) ==
    [s EXCEPT !.attributes =
        [n \in DOMAIN s.attributes \cup {name} |->
            IF n = name THEN value ELSE s.attributes[n]]]

\* dict.__or__: the keys of both, the right operand's value on a shared key.
dict_or(a, b) ==
    [n \in DOMAIN a \cup DOMAIN b |-> IF n \in DOMAIN b THEN b[n] ELSE a[n]]

ValueError == [doc |-> "ValueError", start_char |-> 0, end_char |-> 0, attributes |-> NoAttributes]

\* A variant of Span.__add__ without the test of the documents;
\* C4_SpanAddErrors fails for it.
Span_add_any_doc(a, b) ==
    IF a.end_char /= b.start_char THEN ValueError
    ELSE Span(a.doc, a.start_char, b.end_char, dict_or(a.attributes, b.attributes))

\* Span.__add__; the value ValueError stands for the raised exception.
Span_add(a, b) ==
    IF a.doc /= b.doc THEN ValueError
    ELSE IF a.end_char /= b.start_char THEN ValueError
    ELSE Span(a.doc, a.start_char, b.end_char, dict_or(a.attributes, b.attributes))

\* Span.__eq__
Span_eq(a, b) ==
    /\ a.doc = b.doc
    /\ a.start_char = b.start_char
    /\ a.end_char = b.end_char
    /\ a.attributes = b.attributes

\* DocPosition.token_ahead / token_behind: index of the token in the token
\* list, 0 for None.
token_ahead(tokens, position) ==
    IF \E k \in 1..Len(tokens) : tokens[k].start_char = position
    THEN CHOOSE k \in 1..Len(tokens) : tokens[k].start_char = position
    ELSE 0

token_behind(tokens, position) ==
    IF \E k \in 1..Len(tokens) : tokens[k].end_char = position
    THEN CHOOSE k \in 1..Len(tokens) : tokens[k].end_char = position
    ELSE 0

(***************************************************************************)
(* Patterns.  An optional argument is <<>> for None and <<v>> for value v. *)
(***************************************************************************)
TokenPattern(text, ignore_case, isalpha, isnumeric, isspace, min_len, max_len) ==
    [kind |-> "TokenPattern",
     text |-> text, ignore_case |-> ignore_case,
     isalpha |-> isalpha, isnumeric |-> isnumeric, isspace |-> isspace,
     min_len |-> min_len, max_len |-> max_len,
     to_check |-> (IF text /= <<>> THEN <<"text">> ELSE <<>>)
                  \o (IF isalpha /= <<>> THEN <<"isalpha">> ELSE <<>>)
                  \o (IF isnumeric /= <<>> THEN <<"isnumeric">> ELSE <<>>)
                  \o (IF isspace /= <<>> THEN <<"isspace">> ELSE <<>>)
                  \o (IF min_len /= <<>> THEN <<"min_len">> ELSE <<>>)
                  \o (IF max_len /= <<>> THEN <<"max_len">> ELSE <<>>)]

WordPattern(text, ignore_case, kwargs) ==
    [kind |-> "WordPattern", text |-> text, ignore_case |-> ignore_case,
     to_check |-> (IF text /= <<>> THEN <<<<"text">>>> ELSE <<>>) \o kwargs]

RepeatedPattern(subpattern, arity_min, arity_max) ==
    [kind |-> "RepeatedPattern", subpattern |-> subpattern,
     arity_min |-> IF arity_min = <<>> THEN 0 ELSE arity_min[1],
     arity_max |-> arity_max]

\* RepeatablePattern.__getitem__ with an int, and with a slice lower:upper.
getitem_int(p, arity) == RepeatedPattern(p, <<arity>>, <<arity>>)

getitem_slice(p, lower, upper) ==
    RepeatedPattern(p, IF lower = <<>> THEN <<0>> ELSE lower, upper)

\* DisjunctivePattern.__or__ / OrPattern.__or__
OrPattern(subpatterns) == [kind |-> "OrPattern", subpatterns |-> subpatterns]

or_(p, other) ==
    IF p.kind = "OrPattern" THEN OrPattern(Append(p.subpatterns, other))
    ELSE OrPattern(<<p, other>>)

AllowNone == [kind |-> "None"]
AllowNamed(name) == [kind |-> "str", name |-> name]

\* Pattern.__init__ (the caller passes at least one subpattern).
Pattern(subpatterns, allow_inbetween, as_attribute) ==
    [kind |-> "Pattern", subpatterns |-> subpatterns,
     allow_inbetween |-> allow_inbetween, as_attribute |-> as_attribute]

\* A variant of Pattern.__init__ without the test of the number of
\* subpatterns; C16_EmptySequenceRejected fails for it.
Pattern_init_unchecked(subpatterns, allow_inbetween, as_attribute) ==
    Pattern(subpatterns, allow_inbetween, as_attribute)

\* Pattern.__init__ as a caller sees it: the object, or the ValueError.
Pattern_init(subpatterns, allow_inbetween, as_attribute) ==
    IF Len(subpatterns) = 0 THEN [kind |-> "ValueError"]
    ELSE Pattern(subpatterns, allow_inbetween, as_attribute)

\* A variant of NLP.get_pattern in which every name stands for the default
\* filler; C30_FillerByName fails for it.
get_pattern_any(pattern_name) ==
    getitem_slice(TokenPattern(<<>>, FALSE, <<>>, <<>>, <<TRUE>>, <<>>, <<>>), <<>>, <<>>)

\* NLP.get_pattern
get_pattern(pattern_name) ==
    IF pattern_name = "SPACES"
    THEN getitem_slice(TokenPattern(<<>>, FALSE, <<>>, <<>>, <<TRUE>>, <<>>, <<>>), <<>>, <<>>)
    ELSE AllowNone

(***************************************************************************)
(* Generators                                                              *)
(***************************************************************************)
NoResult == [out |-> <<>>, err |-> "none", touched |-> {}]

Yield(sp, np) == [sp |-> sp, np |-> np]

\* What the Pattern wrappers that receive a yielded Span object unchanged
\* do to it (set_attribute(as_attribute, matched.text)) after it was yielded:
\* names is the set of their as_attribute values.
Marked(text, sp, names) ==
    [sp EXCEPT !.attributes =
        [n \in DOMAIN sp.attributes \cup names |->
            IF n \in names THEN span_text(text, sp) ELSE sp.attributes[n]]]

(***************************************************************************)
(* TokenPattern.match_from                                                 *)
(***************************************************************************)
TokenPattern_rule(p, rule, token_text) ==
    CASE rule = "text" ->
            IF p.ignore_case THEN Lower(token_text) = Lower(p.text[1])
            ELSE token_text = p.text[1]
      [] rule = "isalpha" -> str_isalpha(token_text) = p.isalpha[1]
      [] rule = "isnumeric" -> str_isnumeric(token_text) = p.isnumeric[1]
      [] rule = "isspace" -> str_isspace(token_text) = p.isspace[1]
      [] rule = "min_len" -> ~(Len(token_text) < p.min_len[1])
      [] rule = "max_len" -> ~(Len(token_text) > p.max_len[1])

\* A variant whose next_position is the end of the token in both
\* directions; C24_AnchoredAtPosition fails for it.
TokenPattern_match_from_end(p, d, position, fwd) ==
    LET tokens == doc_tokens(d)
        k == IF fwd THEN token_ahead(tokens, position) ELSE token_behind(tokens, position)
    IN IF k = 0 THEN NoResult
       ELSE IF \E r \in 1..Len(p.to_check) : ~TokenPattern_rule(p, p.to_check[r], tokens[k].text)
       THEN NoResult
       ELSE [NoResult EXCEPT !.out =
                <<Yield(Span(d.id, tokens[k].start_char, tokens[k].end_char, NoAttributes),
                        tokens[k].end_char)>>]

TokenPattern_match_from(p, d, position, fwd) ==
    LET tokens == doc_tokens(d)
        k == IF fwd THEN token_ahead(tokens, position) ELSE token_behind(tokens, position)
    IN IF k = 0 THEN NoResult
       ELSE IF \E r \in 1..Len(p.to_check) : ~TokenPattern_rule(p, p.to_check[r], tokens[k].text)
       THEN NoResult
       ELSE [NoResult EXCEPT !.out =
                <<Yield(Span(d.id, tokens[k].start_char, tokens[k].end_char, NoAttributes),
                        IF fwd THEN tokens[k].end_char ELSE tokens[k].start_char)>>]

(***************************************************************************)
(* WordPattern.match_from.  The anchored Token is a plain object          *)
(* (tokenizer.py: no words_starting_here / words_ending_here field and no *)
(* __getattr__), so reading either attribute raises AttributeError.       *)
(***************************************************************************)
Token_getattr(name) ==
    IF name \in {"text", "doc", "start_char", "end_char", "next_token", "previous_token"}
    THEN "none" ELSE "AttributeError"

WordPattern_match_from(p, d, position, fwd) ==
    LET tokens == doc_tokens(d)
        k == IF fwd THEN token_ahead(tokens, position) ELSE token_behind(tokens, position)
    IN IF k = 0 THEN NoResult
       ELSE [NoResult EXCEPT !.err =
                Token_getattr(IF fwd THEN "words_starting_here" ELSE "words_ending_here")]

(***************************************************************************)
(* The combinators.  names: the as_attribute values that the consumers of *)
(* this generator set on each yielded Span object itself (see Marked).    *)
(* A loop `for x in g: body` is an operator over the generator g, the     *)
(* index i of the value being handled and the loop's state so far.        *)
(***************************************************************************)
RECURSIVE match_from(_, _, _, _, _)
RECURSIVE RepeatedPattern_match_from(_, _, _, _, _, _, _, _)
RECURSIVE RepeatedPattern_loop(_, _, _, _, _, _, _, _, _, _)
RECURSIVE RepeatedPattern_body(_, _, _, _, _, _, _, _, _)
RECURSIVE OrPattern_match_from(_, _, _, _, _, _, _)
RECURSIVE Pattern_match_from(_, _, _, _, _)
RECURSIVE Pattern_frame(_, _, _, _, _, _)
RECURSIVE Pattern_frame_loop(_, _, _, _, _, _, _, _)
RECURSIVE Pattern_frame_body(_, _, _, _, _, _, _)
RECURSIVE Pattern_inbetween_loop(_, _, _, _, _, _, _, _, _)

\* A generator ends: the loop over it ends with its exception, if any.
ended(g, acc) ==
    IF acc.err /= "none" THEN acc
    ELSE [acc EXCEPT !.err = g.err, !.touched = @ \cup g.touched]

\* `yield from g`
yield_from(acc, g) ==
    [acc EXCEPT !.out = @ \o g.out, !.err = g.err, !.touched = @ \cup g.touched]

\* A variant of the end of RepeatedPattern.match_from that never yields the
\* zero-repetition span; C2_QuantifierCompleteness fails for it.
RepeatedPattern_end_silent(previously_matched, position, min_matches, acc) == acc

\* RepeatedPattern.match_from, lines 107-108
RepeatedPattern_end(previously_matched, position, min_matches, acc) ==
    IF acc.err = "none" /\ min_matches = 0
    THEN [acc EXCEPT !.out = Append(@, Yield(previously_matched, position))]
    ELSE acc

\* RepeatedPattern.match_from(doc_position, forward, previously_matched,
\* min_matches, max_matches); the first call passes the empty Span at
\* doc_position and the pattern's arity_min and arity_max.
RepeatedPattern_match_from(p, d, position, fwd, previously_matched, min_matches, max_matches, names) ==
    RepeatedPattern_end(previously_matched, position, min_matches,
        RepeatedPattern_loop(p, d, fwd, previously_matched, min_matches, max_matches,
                             names, match_from(p.subpattern, d, position, fwd, {}),
                             1, NoResult))

RepeatedPattern_loop(p, d, fwd, previously_matched, min_matches, max_matches, names, sub, i, acc) ==
    IF acc.err /= "none" \/ i > Len(sub.out) THEN ended(sub, acc)
    ELSE RepeatedPattern_loop(p, d, fwd, previously_matched, min_matches, max_matches,
            names, sub, i + 1,
            RepeatedPattern_body(p, d, fwd, previously_matched, min_matches,
                                 max_matches, names, sub.out[i], acc))

\* The body of `for matched_sp, next_position in self.subpattern.match_from`,
\* lines 92-106.
RepeatedPattern_body(p, d, fwd, previously_matched, min_matches, max_matches, names, item, acc) ==
    LET matched == IF fwd THEN Span_add(previously_matched, item.sp)
                   ELSE Span_add(item.sp, previously_matched)
        next_position == item.np
        yields == min_matches <= 1
        \* the object `matched` as the recursive call reads it
        held == IF yields THEN Marked(d.text, matched, names) ELSE matched
        local_min_matches == Max(1, min_matches - 1)
        acc1 == IF yields THEN [acc EXCEPT !.out = Append(@, Yield(matched, next_position))]
                ELSE acc
    IN IF matched = ValueError THEN [acc EXCEPT !.err = "ValueError"]
       ELSE IF max_matches /= <<>> /\ ~(max_matches[1] > 1) THEN acc1
       ELSE yield_from(acc1,
               RepeatedPattern_match_from(p, d, next_position, fwd, held, local_min_matches,
                   IF max_matches = <<>> THEN max_matches ELSE <<max_matches[1] - 1>>,
                   names))

\* OrPattern.match_from: `yield from` each subpattern in turn (i: the next).
OrPattern_match_from(p, d, position, fwd, names, i, acc) ==
    IF i > Len(p.subpatterns) \/ acc.err /= "none" THEN acc
    ELSE OrPattern_match_from(p, d, position, fwd, names, i + 1,
            yield_from(acc, match_from(p.subpatterns[i], d, position, fwd, names)))

\* A variant in which no filler means the default filler; C6_NoFillerAbut
\* fails for it.
resolved_inbetween_default(p) ==
    IF p.allow_inbetween.kind \in {"str", "None"} THEN get_pattern("SPACES")
    ELSE p.allow_inbetween

\* self.allow_inbetween as Pattern.match_from uses it once a first element
\* has matched: a name is looked up in the NLP registry (and re-bound).
resolved_inbetween(p) ==
    IF p.allow_inbetween.kind = "str" THEN get_pattern(p.allow_inbetween.name)
    ELSE p.allow_inbetween

\* The state of one recursion frame of Pattern.match_from: the generator so
\* far and the frame's `yielded` list (as the set of its members' values).
NoFrame == [out |-> <<>>, err |-> "none", touched |-> {}, yielded |-> {}]

generator_of(frame) == [out |-> frame.out, err |-> frame.err, touched |-> frame.touched]

\* `if any(i == span for i in yielded): continue`, append, yield; the
\* appended object is the one the consumers then change (names).
Pattern_yield(d, names, span, position, frame) ==
    IF \E y \in frame.yielded : Span_eq(y, span) THEN frame
    ELSE [frame EXCEPT !.out = Append(@, Yield(span, position)),
                       !.yielded = @ \cup {Marked(d.text, span, names)}]

\* A variant of the body below without the test `len(matched) == 0`;
\* C8_FillerRejection fails for it.
Pattern_next_body_one_test(d, fwd, names, matched, inbetween, item, frame) ==
    LET matched_next == item.sp
        span == IF inbetween = <<>>
                THEN (IF fwd THEN Span_add(matched, matched_next)
                      ELSE Span_add(matched_next, matched))
                ELSE (IF fwd
                      THEN Span_add(Span_add(matched, inbetween[1]), matched_next)
                      ELSE Span_add(Span_add(matched_next, inbetween[1]), matched))
    IN IF span = ValueError THEN [frame EXCEPT !.err = "ValueError"]
       ELSE IF inbetween /= <<>> /\ span_len(matched_next) = 0 /\ span_len(inbetween[1]) /= 0
       THEN frame
       ELSE Pattern_yield(d, names, span, item.np, frame)

\* The body of `for matched_next, after_next_position in self.match_from(
\* ..., subpatterns_to_match=stm)`, lines 372-379 (inbetween = <<>>) and
\* lines 386-399 (inbetween = <<matched_inbetween>>).
Pattern_next_body(d, fwd, names, matched, inbetween, item, frame) ==
    LET matched_next == item.sp
        span == IF inbetween = <<>>
                THEN (IF fwd THEN Span_add(matched, matched_next)
                      ELSE Span_add(matched_next, matched))
                ELSE (IF fwd
                      THEN Span_add(Span_add(matched, inbetween[1]), matched_next)
                      ELSE Span_add(Span_add(matched_next, inbetween[1]), matched))
    IN IF span = ValueError THEN [frame EXCEPT !.err = "ValueError"]
       ELSE IF inbetween /= <<>> /\ span_len(matched_next) = 0 /\ span_len(inbetween[1]) /= 0
       THEN frame
       ELSE IF inbetween /= <<>> /\ span_len(matched) = 0 /\ span_len(inbetween[1]) /= 0
       THEN frame
       ELSE Pattern_yield(d, names, span, item.np, frame)

RECURSIVE Pattern_next_loop(_, _, _, _, _, _, _, _)
Pattern_next_loop(d, fwd, names, matched, inbetween, nxt, i, frame) ==
    IF frame.err /= "none" \/ i > Len(nxt.out) THEN ended(nxt, frame)
    ELSE Pattern_next_loop(d, fwd, names, matched, inbetween, nxt, i + 1,
            Pattern_next_body(d, fwd, names, matched, inbetween, nxt.out[i], frame))

\* Pattern.match_from(doc_position, forward, subpatterns_to_match) with a
\* list of subpatterns: one recursion frame, lines 351-399.
Pattern_frame(p, d, position, fwd, subpatterns_to_match, names) ==
    generator_of(
        Pattern_frame_loop(p, d, fwd, subpatterns_to_match, names,
            match_from(IF fwd THEN subpatterns_to_match[1]
                       ELSE subpatterns_to_match[Len(subpatterns_to_match)],
                       d, position, fwd,
                       IF Len(subpatterns_to_match) = 1 THEN names ELSE {}),
            1, NoFrame))

\* `for matched, next_position in sp.match_from(doc_position, forward)`
Pattern_frame_loop(p, d, fwd, subpatterns_to_match, names, first, i, frame) ==
    IF frame.err /= "none" \/ i > Len(first.out) THEN ended(first, frame)
    ELSE Pattern_frame_loop(p, d, fwd, subpatterns_to_match, names, first, i + 1,
            Pattern_frame_body(p, d, fwd, subpatterns_to_match, names, first.out[i], frame))

\* The body of that loop, lines 356-399.
Pattern_frame_body(p, d, fwd, subpatterns_to_match, names, item, frame) ==
    LET matched == item.sp
        next_position == item.np
        n == Len(subpatterns_to_match)
        stm == IF fwd THEN SubSeq(subpatterns_to_match, 2, n)
               ELSE SubSeq(subpatterns_to_match, 1, n - 1)
        allow_inbetween == resolved_inbetween(p)
        frame1 == IF p.allow_inbetween.kind = "str"
                  THEN [frame EXCEPT !.touched = @ \cup {p}] ELSE frame
    IN IF n = 1 THEN Pattern_yield(d, names, matched, next_position, frame)
       ELSE IF allow_inbetween.kind = "None"
       THEN Pattern_next_loop(d, fwd, names, matched, <<>>,
                Pattern_frame(p, d, next_position, fwd, stm, {}), 1, frame1)
       ELSE Pattern_inbetween_loop(p, d, fwd, stm, names, matched,
                match_from(allow_inbetween, d, next_position, fwd, {}), 1, frame1)

\* `for matched_inbetween, after_inbetween_position in
\* self.allow_inbetween.match_from(next_position, forward)`, lines 381-399.
Pattern_inbetween_loop(p, d, fwd, stm, names, matched, inb, i, frame) ==
    IF frame.err /= "none" \/ i > Len(inb.out) THEN ended(inb, frame)
    ELSE Pattern_inbetween_loop(p, d, fwd, stm, names, matched, inb, i + 1,
            Pattern_next_loop(d, fwd, names, matched, <<inb.out[i].sp>>,
                Pattern_frame(p, d, inb.out[i].np, fwd, stm, {}), 1, frame))

\* A variant of the wrapper below that sets no attribute; C20_AsAttribute
\* fails for it.
Pattern_named_off(p, d, g) == g

\* Lines 347-349: every Span the frame over all subpatterns yields gets the
\* attribute as_attribute, when there is one.
Pattern_named(p, d, g) ==
    IF p.as_attribute = <<>> THEN g
    ELSE [g EXCEPT !.out =
            [k \in 1..Len(g.out) |->
                Yield(set_attribute(g.out[k].sp, p.as_attribute[1],
                                    span_text(d.text, g.out[k].sp)),
                      g.out[k].np)]]

\* Pattern.match_from(doc_position, forward) with subpatterns_to_match None.
Pattern_match_from(p, d, position, fwd, names) ==
    Pattern_named(p, d,
        Pattern_frame(p, d, position, fwd, p.subpatterns,
                      names \cup (IF p.as_attribute = <<>> THEN {} ELSE {p.as_attribute[1]})))

\* x.match_from(doc[position], forward) for any matcher x.
match_from(p, d, position, fwd, names) ==
    CASE p.kind = "TokenPattern" -> TokenPattern_match_from(p, d, position, fwd)
      [] p.kind = "WordPattern" -> WordPattern_match_from(p, d, position, fwd)
      [] p.kind = "RepeatedPattern" ->
            RepeatedPattern_match_from(p, d, position, fwd,
                Span(d.id, position, position, NoAttributes),
                p.arity_min, p.arity_max, names)
      [] p.kind = "OrPattern" -> OrPattern_match_from(p, d, position, fwd, names, 1, NoResult)
      [] p.kind = "Pattern" -> Pattern_match_from(p, d, position, fwd, names)

\* The Pattern objects reachable from p after the generators re-bound the
\* allow_inbetween of those in touched (patterns.py line 368).
RECURSIVE rebound(_, _)
rebound(p, touched) ==
    CASE p.kind = "RepeatedPattern" ->
            [p EXCEPT !.subpattern = rebound(@, touched)]
      [] p.kind = "OrPattern" ->
            [p EXCEPT !.subpatterns = [k \in 1..Len(@) |-> rebound(@[k], touched)]]
      [] p.kind = "Pattern" ->
            [p EXCEPT !.subpatterns = [k \in 1..Len(@) |-> rebound(@[k], touched)],
                      !.allow_inbetween =
                          IF p \in touched THEN resolved_inbetween(p)
                          ELSE IF @.kind \in {"None", "str"} THEN @
                          ELSE rebound(@, touched)]
      [] OTHER -> p

\* The generator of Pattern.match before its first step.  positions: the
\* offsets at which match_from was called.
NoMatches == [out |-> <<>>, err |-> "none", touched |-> {}, positions |-> <<>>]

\* A variant of the positions below that anchors at the ends of the tokens
\* only; C10_ScanBoundaries fails for it.
Pattern_match_positions_ends(token) == <<token.end_char>>

\* Pattern.match(doc, forward), the body of `for token in doc.tokens`: the
\* positions at which match_from is called for one token.
Pattern_match_positions(token) ==
    (IF token.start_char = 0 THEN <<token.start_char>> ELSE <<>>) \o <<token.end_char>>

\* `for matched, next_token in self.match_from(position, forward=forward):
\* yield matched` at each of the positions of one token (i: the next one).
RECURSIVE Pattern_match_at(_, _, _, _, _, _)
Pattern_match_at(p, d, fwd, positions, i, acc) ==
    IF acc.err /= "none" \/ i > Len(positions) THEN acc
    ELSE Pattern_match_at(p, d, fwd, positions, i + 1,
            [yield_from(acc, match_from(p, d, positions[i], fwd, {}))
                EXCEPT !.positions = Append(acc.positions, positions[i])])

\* Pattern.match(doc, forward): the body of `for token in doc.tokens` for the
\* k-th token.
Pattern_match_token(p, d, fwd, k) ==
    Pattern_match_at(p, d, fwd, Pattern_match_positions(doc_tokens(d)[k]), 1, NoMatches)

\* Pattern.match(doc, forward) drained: every token of doc.tokens in turn,
\* from the k-th on; the generator stops at the first exception.
token_done(acc, r) ==
    [out |-> acc.out \o r.out, err |-> r.err, touched |-> acc.touched \cup r.touched,
     positions |-> acc.positions \o r.positions]

RECURSIVE Pattern_match(_, _, _, _, _)
Pattern_match(p, d, fwd, k, acc) ==
    IF acc.err /= "none" \/ k > Len(doc_tokens(d)) THEN acc
    ELSE Pattern_match(rebound(p, acc.touched), d, fwd, k + 1,
            token_done(acc, Pattern_match_token(rebound(p, acc.touched), d, fwd, k)))

(***************************************************************************)
(* The patterns and matchers the model builds                              *)
(***************************************************************************)
TP(text) == TokenPattern(<<text>>, FALSE, <<>>, <<>>, <<>>, <<>>, <<>>)
A == TP(<<"a">>)
One == TP(<<"1">>)
Colon == TP(<<":">>)
IsAlpha == TokenPattern(<<>>, FALSE, <<TRUE>>, <<>>, <<>>, <<>>, <<>>)
NotSpace == TokenPattern(<<>>, FALSE, <<>>, <<>>, <<FALSE>>, <<>>, <<>>)
AnyWord == WordPattern(<<>>, FALSE, <<>>)
SPACES == AllowNamed("SPACES")

Quantifiers ==
    {getitem_int(Colon, 0), getitem_int(Colon, 2),
     getitem_slice(Colon, <<0>>, <<0>>), getitem_slice(Colon, <<>>, <<1>>),
     getitem_slice(Colon, <<1>>, <<2>>), getitem_slice(Colon, <<2>>, <<3>>),
     getitem_slice(Colon, <<1>>, <<>>), getitem_slice(Colon, <<>>, <<>>),
     getitem_slice(Colon, <<2>>, <<>>),
     getitem_slice(or_(Colon, One), <<1>>, <<2>>),
     getitem_slice(NotSpace, <<1>>, <<>>),
     getitem_slice(Pattern(<<A, Colon>>, AllowNone, <<"m">>), <<>>, <<2>>)}

Sequences ==
    {Pattern(<<A, One>>, SPACES, <<>>),
     Pattern(<<A, One>>, AllowNone, <<>>),
     Pattern(<<A, getitem_slice(One, <<>>, <<1>>), Colon>>, AllowNone, <<>>),
     Pattern(<<A, getitem_slice(One, <<>>, <<1>>), Colon>>, SPACES, <<>>),
     Pattern(<<getitem_slice(A, <<0>>, <<1>>), One>>, SPACES, <<>>),
     Pattern(<<A, getitem_slice(One, <<0>>, <<1>>)>>, SPACES, <<"n">>),
     Pattern(<<One, getitem_slice(A, <<>>, <<1>>), getitem_slice(One, <<>>, <<1>>)>>, SPACES, <<>>),
     Pattern(<<A, One>>, getitem_slice(Colon, <<1>>, <<>>), <<>>),
     Pattern(<<A, One>>, Colon, <<>>),
     Pattern(<<A, One>>, AllowNamed("NUMBER"), <<>>),
     Pattern(<<or_(A, IsAlpha)>>, SPACES, <<"n">>),
     Pattern(<<or_(A, IsAlpha), getitem_slice(Colon, <<>>, <<>>)>>, AllowNone, <<>>),
     Pattern(<<getitem_slice(Colon, <<1>>, <<2>>)>>, SPACES, <<"n">>),
     Pattern(<<Pattern(<<A, Colon>>, AllowNone, <<"m">>), One>>, SPACES, <<"n">>),
     Pattern(<<or_(Pattern(<<A>>, SPACES, <<"m">>), Pattern(<<A>>, SPACES, <<"n">>)), Colon>>,
             AllowNone, <<>>),
     Pattern(<<AnyWord>>, SPACES, <<>>),
     Pattern(<<A, AnyWord>>, SPACES, <<>>)}

Matchers == Quantifiers \cup Sequences \cup {A, IsAlpha, AnyWord, or_(A, IsAlpha)}

SpanSeq(out) == [k \in 1..Len(out) |-> out[k].sp]
SpanSet(out) == {out[k].sp : k \in 1..Len(out)}

(***************************************************************************)
(* The lazy-attribute framework (base_classes.py, nlp.py) and the          *)
(* analyzers (tokenizer.py, words_analyzer.py, patterns.py).  An entity is *)
(* "Doc", "Token" or "Word"; Doc and Word objects own a cache              *)
(* (lazy_attributes), Token objects own none.  The operators thread the    *)
(* record w: the caches, the registry, the logs, and the pending error.    *)
(* A score is an integer number of tenths.                                 *)
(***************************************************************************)
None == <<>>

Tokenizer == [class |-> "Tokenizer", lang |-> "none"]
WordsAnalyzer(lang) == [class |-> "WordsAnalyzer", lang |-> lang]
PatternAnalyzer == [class |-> "PatternAnalyzer", lang |-> "none"]

\* WordsAnalyzer.__init__ with the character sets given by the caller;
\* char_replacements maps a character to the string that replaces it.
WordsAnalyzer_init(lang, word_chars, first_chars, last_chars, char_replacements) ==
    [class |-> "WordsAnalyzer", lang |-> lang, word_chars |-> word_chars,
     first_chars |-> first_chars, last_chars |-> last_chars,
     char_replacements |-> char_replacements]

DEFAULT_ANALYZERS == <<Tokenizer, WordsAnalyzer("uk"), WordsAnalyzer("ru")>>

targets(analyzer) ==
    CASE analyzer.class = "Tokenizer" -> {<<"Doc", "tokens">>}
      [] analyzer.class = "WordsAnalyzer" ->
            {<<"Doc", "words">>, <<"Token", "words_starting_here">>,
             <<"Token", "words_ending_here">>}
      [] analyzer.class = "PatternAnalyzer" -> {<<"Doc", "find_tags">>}

\* NLP.add_analyzer over the analyzers given to NLP(): the list
\* self.analyzers[target_class][name], in the order of registration.
attr_factories(registry, target_class, name) ==
    SelectSeq(registry, LAMBDA a : <<target_class, name>> \in targets(a))

\* Word.__init__ followed by the cache entries parse_words writes.
Word(text, start, end, lang, score) ==
    [doc |-> ThisDoc, text |-> text, start_char |-> start, end_char |-> end,
     normalized_text |-> text,
     lazy_attributes |-> [n \in {"lang", "score"} |-> IF n = "lang" THEN lang ELSE score]]

NoWord == [kind |-> "None"]

\* The tuple `state` squeeze_words builds for a word: its fields and its
\* cached attributes but 'score', filtered by keep_only / ignore_only.
word_state(w, keep_only, ignore_only) ==
    LET fields == {"doc", "text", "start_char", "end_char", "normalized_text"}
        keys == fields \cup (DOMAIN w.lazy_attributes \ {"score"})
        kept == {k \in keys : /\ (keep_only /= None => k \in keep_only[1])
                              /\ (ignore_only /= None => k \notin ignore_only[1])}
    IN [k \in kept |-> IF k \in fields THEN w[k] ELSE w.lazy_attributes[k]]

\* The loop of squeeze_words: acc is list(state_to_word.values()) so far.
RECURSIVE squeeze_loop(_, _, _, _, _)
squeeze_loop(words, keep_only, ignore_only, i, acc) ==
    IF i > Len(words) THEN acc
    ELSE squeeze_loop(words, keep_only, ignore_only, i + 1,
            IF \E j \in 1..Len(acc) :
                  word_state(acc[j], keep_only, ignore_only)
                     = word_state(words[i], keep_only, ignore_only)
            THEN acc
            ELSE Append(acc, words[i]))

squeeze_words(words, keep_only, ignore_only) ==
    IF keep_only /= None /\ ignore_only /= None
    THEN [err |-> "ValueError", words |-> <<>>]
    ELSE [err |-> "none", words |-> squeeze_loop(words, keep_only, ignore_only, 1, <<>>)]

\* target.lazy_attributes[name] = value
setitem(w, target, name, value) ==
    [w EXCEPT !.cache[target] =
                 [n \in DOMAIN @ \cup {name} |-> IF n = name THEN value ELSE @[n]],
              !.writes = Append(@, [target |-> target, name |-> name, value |-> value])]

raise(w, err) == [w EXCEPT !.err = err]

\* The object a cache entry holds: the index of the assignment that stored it.
RECURSIVE cached_object(_, _, _, _)
cached_object(log, target, name, i) ==
    IF i = 0 THEN 0
    ELSE IF log[i].target = target /\ log[i].name = name THEN i
    ELSE cached_object(log, target, name, i - 1)

Tokenizer_eval_tokens(w) ==
    IF "tokens" \in DOMAIN w.cache["Doc"] THEN raise(w, "Exception")
    ELSE IF Len(w.text) = 0 THEN setitem(w, "Doc", "tokens", <<>>)
    ELSE setitem(setitem(w, "Doc", "tokens", <<>>), "Doc", "tokens", eval_tokens(w.text))

PatternAnalyzer_eval_find_tags(w) ==
    IF "find_tags" \notin DOMAIN w.cache["Doc"]
    THEN setitem(w, "Doc", "find_tags", "find_doc_tags")
    ELSE raise(w, "AttributeError")

RECURSIVE getattr(_, _, _)

\* `for t in doc.tokens: doc.lazy_attributes['words'].extend(t.words_starting_here)`
\* from the k-th token on, then the assignment of the squeezed list; r is
\* the state after reading t.words_starting_here.
RECURSIVE WordsAnalyzer_eval_words_loop(_, _)
WordsAnalyzer_eval_words_next(w, k, r) ==
    IF r.err /= "none" THEN r ELSE WordsAnalyzer_eval_words_loop(r, k + 1)

WordsAnalyzer_eval_words_loop(w, k) ==
    IF w.err /= "none" THEN w
    ELSE IF k > Len(w.cache["Doc"]["tokens"])
    THEN setitem(w, "Doc", "words", squeeze_words(w.cache["Doc"]["words"], None, None).words)
    ELSE WordsAnalyzer_eval_words_next(w, k, getattr(w, "Token", "words_starting_here"))

WordsAnalyzer_eval_words(w) ==
    WordsAnalyzer_eval_words_loop(
        getattr(IF "words" \notin DOMAIN w.cache["Doc"]
                THEN setitem(w, "Doc", "words", <<>>) ELSE w,
                "Doc", "tokens"),
        1)

\* eval_words_forward / eval_words_backward(t): the first statement that
\* touches the token reads t.lazy_attributes, which a Token does not have.
WordsAnalyzer_eval_words_at(w, name) ==
    raise(w, Token_getattr("lazy_attributes"))

\* analyzer.eval_attribute(target, name), recorded in the log `invoked`;
\* access is the __getattr__ call that asked for it (0: a direct call).
eval_attribute(analyzer, w, target, name, access) ==
    LET w1 == [w EXCEPT !.invoked = Append(@, [analyzer |-> analyzer, target |-> target,
                                                name |-> name, access |-> access])]
    IN CASE analyzer.class = "Tokenizer" ->
               IF name = "tokens" THEN Tokenizer_eval_tokens(w1) ELSE w1
         [] analyzer.class = "WordsAnalyzer" ->
               IF target = "Doc" /\ name = "words" THEN WordsAnalyzer_eval_words(w1)
               ELSE IF target = "Token" /\ name \in {"words_starting_here", "words_ending_here"}
               THEN WordsAnalyzer_eval_words_at(w1, name)
               ELSE w1
         [] analyzer.class = "PatternAnalyzer" ->
               IF name = "find_tags" THEN PatternAnalyzer_eval_find_tags(w1) ELSE w1

\* The loops of NLP.eval_lazy_attribute over the analyzers registered for
\* the class of target and the name.
RECURSIVE eval_lazy_attribute_loop(_, _, _, _, _, _)
eval_lazy_attribute_loop(w, target, name, access, factories, i) ==
    IF w.err /= "none" \/ i > Len(factories) THEN w
    ELSE eval_lazy_attribute_loop(
            eval_attribute(factories[i], w, target, name, access),
            target, name, access, factories, i + 1)

\* A variant of eval_lazy_attribute that returns when no analyzer is
\* registered; C15_NoAnalyzerError fails for it.
eval_lazy_attribute_silent(w, target, name, access) ==
    eval_lazy_attribute_loop(w, target, name, access,
                             attr_factories(w.registry, target, name), 1)

eval_lazy_attribute(w, target, name, access) ==
    LET factories == attr_factories(w.registry, target, name)
    IN IF Len(factories) = 0 THEN raise(w, "AttributeError")
       ELSE eval_lazy_attribute_loop(w, target, name, access, factories, 1)

\* The end of an attribute access: its outcome is recorded in `accesses`.
getattr_done(w, access, err, obj) ==
    [w EXCEPT !.err = err,
              !.accesses[access] = [@ EXCEPT !.err = err, !.obj = obj]]

\* WithLazyAttributes.__getattr__ once the analyzers have run.
getattr_return(w, target, name, access) ==
    IF w.err /= "none" THEN getattr_done(w, access, w.err, 0)
    ELSE IF name \notin DOMAIN w.cache[target] THEN getattr_done(w, access, "KeyError", 0)
    ELSE getattr_done(w, access, "none", cached_object(w.writes, target, name, Len(w.writes)))

\* The expression `entity.name`: WithLazyAttributes.__getattr__ for a Doc
\* or a Word, the plain attribute lookup for a Token.
getattr(w, target, name) ==
    LET access == Len(w.accesses) + 1
        w0 == [w EXCEPT !.accesses =
                  Append(@, [target |-> target, name |-> name, err |-> "pending", obj |-> 0])]
    IN IF target \notin DOMAIN w.cache
       THEN getattr_done(w0, access, Token_getattr(name), 0)
       ELSE getattr_return(
               IF name \in DOMAIN w0.cache[target] THEN w0
               ELSE eval_lazy_attribute(w0, target, name, access),
               target, name, access)

(***************************************************************************)
(* The state machine                                                       *)
(***************************************************************************)
NoPattern == [kind |-> "None"]
NoCall == [kind |-> "None"]
NoAdded == [kind |-> "None"]

\* NLP(): the registry holds DEFAULT_ANALYZERS; nothing has been accessed.
NoAccess ==
    /\ analyzers = DEFAULT_ANALYZERS
    /\ word = NoWord
    /\ writes = <<>>
    /\ invoked = <<>>
    /\ accesses = <<>>

\* No generator of match_patterns exists.
NoQuery ==
    /\ texts = <<>>
    /\ patterns = <<>>
    /\ docs = <<>>
    /\ text_i = 0
    /\ pattern_i = 0
    /\ at = "none"
    /\ pending = NoMatches

Init ==
    /\ doc \in {Doc(t) : t \in Texts}
    /\ pattern = NoPattern
    /\ forward = TRUE
    /\ pc = "idle"
    /\ tok_i = 0
    /\ attempted = <<>>
    /\ results = <<>>
    /\ call = NoCall
    /\ added = NoAdded
    /\ NoAccess
    /\ NoQuery

\* The consumer's first pull on Pattern.match(doc, forward): doc.tokens is
\* read (and computed when not cached) and the loop over the tokens begins.
Match(p, fwd) ==
    /\ pc = "idle"
    /\ doc' = Doc_with_tokens(doc)
    /\ pattern' = p
    /\ forward' = fwd
    /\ tok_i' = 1
    /\ pc' = IF Len(doc_tokens(doc)) = 0 THEN "done" ELSE "scanning"
    /\ UNCHANGED <<attempted, results, call, added, lazy_vars, query_vars>>

\* One iteration of the loop over the tokens, drained by the consumer; r is
\* what the iteration did.
MatchToken_done(r) ==
    /\ results' = results \o SpanSeq(r.out)
    /\ attempted' = attempted \o r.positions
    /\ pattern' = rebound(pattern, r.touched)
    /\ pc' = IF r.err /= "none" THEN r.err
             ELSE IF tok_i = Len(doc_tokens(doc)) THEN "done"
             ELSE "scanning"

MatchToken ==
    /\ pc = "scanning"
    /\ MatchToken_done(Pattern_match_token(pattern, doc, forward, tok_i))
    /\ tok_i' = tok_i + 1
    /\ UNCHANGED <<doc, forward, call, added, lazy_vars, query_vars>>

\* A caller drains x.match_from(doc[position], forward); r is the generator.
MatchFrom_done(p, position, fwd, r) ==
    /\ pattern' = rebound(p, r.touched)
    /\ call' = [kind |-> "match_from", pattern |-> p, position |-> position,
                forward |-> fwd, out |-> r.out, err |-> r.err]

MatchFrom(p, position, fwd) ==
    /\ pc = "idle"
    /\ doc' = Doc_with_tokens(doc)
    /\ MatchFrom_done(p, position, fwd,
                      match_from(p, Doc_with_tokens(doc), position, fwd, {}))
    /\ forward' = fwd
    /\ pc' = "called"
    /\ UNCHANGED <<tok_i, attempted, results, added, lazy_vars, query_vars>>

Next ==
    \/ \E p \in Sequences, fwd \in BOOLEAN : Match(p, fwd)
    \/ MatchToken
    \/ \E p \in Matchers, position \in 0..Len(doc.text), fwd \in BOOLEAN :
          MatchFrom(p, position, fwd)

Spec == Init /\ [][Next]_vars

(***************************************************************************)
(* Span concatenation on its own: a caller evaluates a + b for two Span    *)
(* objects of two documents.                                               *)
(***************************************************************************)
MaxOffset == 2

AttributeNames == {"j", "k"}
AttributeValues == {<<"a">>, <<"1">>}
AttributeMaps == UNION {[S -> AttributeValues] : S \in SUBSET AttributeNames}

Spans ==
    {sp \in {Span(d, start, end, attributes) :
                d \in {ThisDoc, OtherDoc},
                start \in 0..MaxOffset, end \in 0..MaxOffset,
                attributes \in AttributeMaps} :
        sp.start_char <= sp.end_char}

InitSpan ==
    /\ doc = Doc([i \in 1..MaxOffset |-> "a"])
    /\ pattern = NoPattern
    /\ forward = TRUE
    /\ pc = "idle"
    /\ tok_i = 0
    /\ attempted = <<>>
    /\ results = <<>>
    /\ call = NoCall
    /\ added = NoAdded
    /\ NoAccess
    /\ NoQuery

\* a + b: Span.__add__ reads its operands and returns a new Span or raises.
AddSpans(a, b) ==
    /\ added' = [kind |-> "add", a |-> a, b |-> b, result |-> Span_add(a, b)]
    /\ pc' = "added"
    /\ UNCHANGED <<doc, pattern, forward, tok_i, attempted, results, call>>
    /\ UNCHANGED <<lazy_vars, query_vars>>

NextSpan ==
    /\ pc = "idle"
    /\ \E a \in Spans, b \in Spans : AddSpans(a, b)

SpecSpan == InitSpan /\ [][NextSpan]_vars

(***************************************************************************)
(* The lazy-attribute framework on its own: a caller reads attributes of  *)
(* a Doc, of one of its Token objects and of a Word, under an NLP object  *)
(* built with one of several analyzer lists.                              *)
(***************************************************************************)
MaxAccesses == 3

LazyTexts == {<<>>, <<"a">>}

Registries ==
    {DEFAULT_ANALYZERS, <<Tokenizer>>, <<Tokenizer, PatternAnalyzer>>, <<WordsAnalyzer("uk")>>}

\* The attribute reads the caller makes: <<entity, name>>.
Accessible ==
    {<<"Doc", "tokens">>, <<"Doc", "words">>, <<"Doc", "find_tags">>,
     <<"Token", "words_starting_here">>, <<"Token", "text">>,
     <<"Word", "score">>, <<"Word", "tokens">>}

\* No Pattern.match, match_from or span concatenation is in progress.
NoMatch ==
    /\ pattern = NoPattern
    /\ forward = TRUE
    /\ pc = "idle"
    /\ tok_i = 0
    /\ attempted = <<>>
    /\ results = <<>>
    /\ call = NoCall
    /\ added = NoAdded

InitLazy ==
    /\ doc \in {Doc(t) : t \in LazyTexts}
    /\ NoMatch
    /\ analyzers \in Registries
    /\ word = Word(<<"a">>, 0, 1, "uk", 6)
    /\ writes = <<>>
    /\ invoked = <<>>
    /\ accesses = <<>>
    /\ NoQuery

\* The caches, the registry and the logs, as the operators thread them.
World ==
    [cache |-> [Doc |-> doc.lazy_attributes, Word |-> word.lazy_attributes],
     text |-> doc.text, registry |-> analyzers,
     writes |-> writes, invoked |-> invoked, accesses |-> accesses, err |-> "none"]

Stored(w) ==
    /\ doc' = [doc EXCEPT !.lazy_attributes = w.cache["Doc"]]
    /\ writes' = w.writes
    /\ invoked' = w.invoked
    /\ accesses' = w.accesses

\* The caller evaluates `entity.name` (and catches what it raises).
GetAttr(target, name) ==
    /\ Len(accesses) < MaxAccesses
    /\ Stored(getattr(World, target, name))
    /\ UNCHANGED <<pattern, forward, pc, tok_i, attempted, results, call, added>>
    /\ UNCHANGED <<analyzers, word, query_vars>>

NextLazy ==
    \E a \in Accessible : GetAttr(a[1], a[2])

SpecLazy == InitLazy /\ [][NextLazy]_vars

\* The caller calls analyzer.eval_attribute(target, name) itself; w is the
\* state the call leaves.  `call` keeps what the caller observed.
EvalAttribute_done(analyzer, target, name, w) ==
    /\ Stored(w)
    /\ call' = [kind |-> "eval_attribute", analyzer |-> analyzer, target |-> target,
                name |-> name, err |-> w.err,
                cached |-> (target = "Doc" /\ name \in DOMAIN doc.lazy_attributes),
                wrote |-> Len(w.writes) - Len(writes)]

EvalAttribute(analyzer, target, name) ==
    /\ Len(invoked) < MaxAccesses
    /\ EvalAttribute_done(analyzer, target, name,
                          eval_attribute(analyzer, World, target, name, 0))
    /\ UNCHANGED <<pattern, forward, pc, tok_i, attempted, results, added>>
    /\ UNCHANGED <<analyzers, word, query_vars>>

NextAnalyzers ==
    \/ \E a \in Accessible : GetAttr(a[1], a[2])
    \/ \E analyzer \in {Tokenizer, WordsAnalyzer("uk"), PatternAnalyzer} :
          \E a \in targets(analyzer) : EvalAttribute(analyzer, a[1], a[2])

SpecAnalyzers == InitLazy /\ [][NextAnalyzers]_vars

(***************************************************************************)
(* Construction of patterns on its own: a caller writes Pattern(...) or    *)
(* pattern[arity] / pattern[lower:upper] and keeps what it gets.           *)
(***************************************************************************)
MaxBound == 2

MaxElements == 2

RECURSIVE ElementLists(_)
ElementLists(n) ==
    IF n = 0 THEN {<<>>}
    ELSE {Append(s, x) : s \in ElementLists(n - 1), x \in {A, One, Colon}}

Arities == {None} \cup {<<n>> : n \in (0 - 1)..MaxBound}

Repeatables == {A, or_(A, One), Pattern(<<A, One>>, SPACES, None)}

InitConstruct ==
    /\ doc = Doc(<<>>)
    /\ NoMatch
    /\ NoAccess
    /\ NoQuery

\* Pattern(*subpatterns, allow_inbetween=..., as_attribute=...)
NewPattern(subpatterns, allow_inbetween, as_attribute) ==
    /\ call' = [kind |-> "Pattern", subpatterns |-> subpatterns,
                result |-> Pattern_init(subpatterns, allow_inbetween, as_attribute)]
    /\ UNCHANGED <<doc, pattern, forward, pc, tok_i, attempted, results, added>>
    /\ UNCHANGED <<lazy_vars, query_vars>>

\* p[arity] with an int
GetItemInt(p, arity) ==
    /\ call' = [kind |-> "getitem", subpattern |-> p, lower |-> <<arity>>, upper |-> <<arity>>,
                result |-> getitem_int(p, arity)]
    /\ UNCHANGED <<doc, pattern, forward, pc, tok_i, attempted, results, added>>
    /\ UNCHANGED <<lazy_vars, query_vars>>

\* p[lower:upper]
GetItemSlice(p, lower, upper) ==
    /\ call' = [kind |-> "getitem", subpattern |-> p, lower |-> lower, upper |-> upper,
                result |-> getitem_slice(p, lower, upper)]
    /\ UNCHANGED <<doc, pattern, forward, pc, tok_i, attempted, results, added>>
    /\ UNCHANGED <<lazy_vars, query_vars>>

NextConstruct ==
    \/ \E n \in 0..MaxElements : \E subpatterns \in ElementLists(n) :
          \E allow_inbetween \in {AllowNone, SPACES}, as_attribute \in {None, <<"n">>} :
             NewPattern(subpatterns, allow_inbetween, as_attribute)
    \/ \E p \in Repeatables, arity \in (0 - 1)..MaxBound : GetItemInt(p, arity)
    \/ \E p \in Repeatables, lower \in Arities, upper \in Arities : GetItemSlice(p, lower, upper)

SpecConstruct == InitConstruct /\ [][NextConstruct]_vars

(***************************************************************************)
(* squeeze_words on its own: a caller passes a list of candidate Words of  *)
(* one token, as parse_words builds them for the analyzers' languages.     *)
(***************************************************************************)
MaxWords == 2

Scores == {3, 4, 5, 6}

Candidates == {Word(<<"a">>, 0, 1, lang, score) : lang \in {"uk", "ru"}, score \in Scores}

RECURSIVE WordLists(_)
WordLists(n) ==
    IF n = 0 THEN {<<>>}
    ELSE {Append(s, x) : s \in WordLists(n - 1), x \in Candidates}

Selections == {None, <<{"lang"}>>}

\* squeeze_words(words, keep_only, ignore_only)
SqueezeWords(words, keep_only, ignore_only) ==
    /\ call' = [kind |-> "squeeze_words", words |-> words, keep_only |-> keep_only,
                ignore_only |-> ignore_only,
                result |-> squeeze_words(words, keep_only, ignore_only)]
    /\ UNCHANGED <<doc, pattern, forward, pc, tok_i, attempted, results, added>>
    /\ UNCHANGED <<lazy_vars, query_vars>>

NextWords ==
    \E n \in 0..MaxWords : \E words \in WordLists(n) :
       \E keep_only \in Selections, ignore_only \in Selections :
          SqueezeWords(words, keep_only, ignore_only)

SpecWords == InitConstruct /\ [][NextWords]_vars

(***************************************************************************)
(* NLP.match_patterns(patterns, texts, backward): a generator.  The caller *)
(* creates it, pulls spans from it one at a time and may stop at any       *)
(* point; between two pulls the generator is suspended at a yield.         *)
(* `at` is the generator's position: at the head of the loop over texts,   *)
(* over patterns, over the tokens of Pattern.match, or inside the body of  *)
(* the latter with the spans of the current token still to be yielded.     *)
(***************************************************************************)
MaxTexts == 2

MaxPatterns == 2

\* An element of texts: a str, or a Doc built by the caller with nlp(text).
Text(text) == [kind |-> "str", text |-> text]
GivenDoc(text) == [kind |-> "Doc", text |-> text]

QueryItems == {Text(<<"a", "1", "a">>), GivenDoc(<<"a", " ", "1">>), Text(<<>>)}

QueryPatterns ==
    {Pattern(<<A, One>>, SPACES, None),
     Pattern(<<or_(A, One)>>, AllowNamed("NUMBER"), <<"n">>),
     Pattern(<<One, AnyWord>>, SPACES, None)}

RECURSIVE ListsOf(_, _)
ListsOf(S, n) ==
    IF n = 0 THEN {<<>>}
    ELSE {Append(s, x) : s \in ListsOf(S, n - 1), x \in S}

\* The Doc object of the i-th element of texts: the caller's, or the one
\* nlp(text) makes when the loop reaches a str.
NoDoc == [id |-> "None", text |-> <<>>, lazy_attributes |-> NoAttributes]

\* The identity of the Doc object of the i-th element of texts.
DocId(kind, i) == kind \o "_" \o ToString(i)

\* A variant of NLP.__call__ that tokenizes the text at once;
\* C19_PullDriven fails for it.
NLP_call_eager(text, kind, i) ==
    Doc_with_tokens([Doc(text) EXCEPT !.id = kind \o "_" \o ToString(i)])

NLP_call(text, kind, i) == [Doc(text) EXCEPT !.id = DocId(kind, i)]

InitQuery ==
    /\ doc = Doc(<<>>)
    /\ NoMatch
    /\ NoAccess
    /\ NoQuery

\* g = nlp.match_patterns(ps, ts, backward=bw): the generator object is
\* made; no statement of the body runs.
MatchPatterns(ps, ts, bw) ==
    /\ pc = "idle"
    /\ patterns' = ps
    /\ texts' = ts
    /\ forward' = ~bw
    /\ docs' = [i \in 1..Len(ts) |->
                   IF ts[i].kind = "Doc" THEN NLP_call(ts[i].text, "given", i) ELSE NoDoc]
    /\ at' = "texts"
    /\ pc' = "created"
    /\ UNCHANGED <<doc, pattern, tok_i, attempted, results, call, added>>
    /\ UNCHANGED <<lazy_vars, text_i, pattern_i, pending>>

\* next(g): the generator runs on from where it is suspended.
Pull ==
    /\ pc \in {"created", "suspended"}
    /\ pc' = "running"
    /\ UNCHANGED <<doc, pattern, forward, tok_i, attempted, results, call, added>>
    /\ UNCHANGED <<lazy_vars, query_vars>>

\* The caller drops or closes the generator.
Close ==
    /\ pc \in {"created", "suspended"}
    /\ pc' = "closed"
    /\ UNCHANGED <<doc, pattern, forward, tok_i, attempted, results, call, added>>
    /\ UNCHANGED <<lazy_vars, query_vars>>

\* `for doc in texts: if isinstance(doc, str): doc = self(doc)`
NextText ==
    /\ pc = "running"
    /\ at = "texts"
    /\ IF text_i = Len(texts)
       THEN /\ pc' = "finished"
            /\ UNCHANGED <<text_i, docs, pattern_i, at>>
       ELSE /\ text_i' = text_i + 1
            /\ docs' = [docs EXCEPT ![text_i + 1] =
                           IF texts[text_i + 1].kind = "str"
                           THEN NLP_call(texts[text_i + 1].text, "wrapped", text_i + 1)
                           ELSE @]
            /\ pattern_i' = 0
            /\ at' = "patterns"
            /\ pc' = pc
    /\ UNCHANGED <<doc, pattern, forward, tok_i, attempted, results, call, added>>
    /\ UNCHANGED <<lazy_vars, texts, patterns, pending>>

\* The caches and the logs as getattr threads them, for the Doc d.
QueryWorld(d) ==
    [cache |-> [Doc |-> d.lazy_attributes], text |-> d.text, registry |-> analyzers,
     writes |-> writes, invoked |-> invoked, accesses |-> accesses, err |-> "none"]

\* `for token in doc.tokens` begins: w is the state after reading doc.tokens.
NextPattern_tokens(w) ==
    /\ docs' = [docs EXCEPT ![text_i] = [@ EXCEPT !.lazy_attributes = w.cache["Doc"]]]
    /\ writes' = w.writes
    /\ invoked' = w.invoked
    /\ accesses' = w.accesses
    /\ pc' = IF w.err /= "none" THEN w.err ELSE pc

\* `for p in patterns: yield from p.match(doc, forward=not backward)`
NextPattern ==
    /\ pc = "running"
    /\ at = "patterns"
    /\ IF pattern_i = Len(patterns)
       THEN /\ at' = "texts"
            /\ UNCHANGED <<pattern_i, tok_i, docs, writes, invoked, accesses, pc>>
       ELSE /\ pattern_i' = pattern_i + 1
            /\ NextPattern_tokens(getattr(QueryWorld(docs[text_i]), "Doc", "tokens"))
            /\ tok_i' = 0
            /\ at' = "tokens"
    /\ UNCHANGED <<doc, pattern, forward, attempted, results, call, added>>
    /\ UNCHANGED <<analyzers, word, texts, patterns, text_i, pending>>

\* A variant of the body below that yields the spans of a token in the
\* reverse order; C11_QueryOrder fails for it.
NextToken_body_reversed(r) ==
    /\ pending' = [r EXCEPT !.out = [k \in 1..Len(r.out) |-> r.out[Len(r.out) + 1 - k]]]
    /\ patterns' = [patterns EXCEPT ![pattern_i] = rebound(@, r.touched)]

\* The body of `for token in doc.tokens` of Pattern.match for the next
\* token; r is what it will yield and how it ends.
NextToken_body(r) ==
    /\ pending' = r
    /\ patterns' = [patterns EXCEPT ![pattern_i] = rebound(@, r.touched)]

NextToken ==
    /\ pc = "running"
    /\ at = "tokens"
    /\ IF tok_i = Len(doc_tokens(docs[text_i]))
       THEN /\ at' = "patterns"
            /\ UNCHANGED <<tok_i, pending, patterns>>
       ELSE /\ tok_i' = tok_i + 1
            /\ NextToken_body(Pattern_match_token(patterns[pattern_i], docs[text_i],
                                                  forward, tok_i + 1))
            /\ at' = "yield"
    /\ UNCHANGED <<doc, pattern, forward, pc, attempted, results, call, added>>
    /\ UNCHANGED <<lazy_vars, texts, docs, text_i, pattern_i>>

\* `yield matched`: the generator is suspended and the caller has the span.
\* The log `results` also keeps the indices of the text and of the pattern.
YieldSpan ==
    /\ pc = "running"
    /\ at = "yield"
    /\ Len(pending.out) > 0
    /\ results' = Append(results, [text |-> text_i, pattern |-> pattern_i,
                                   sp |-> pending.out[1].sp])
    /\ pending' = [pending EXCEPT !.out = Tail(@)]
    /\ pc' = "suspended"
    /\ UNCHANGED <<doc, pattern, forward, tok_i, attempted, call, added>>
    /\ UNCHANGED <<lazy_vars, texts, patterns, docs, text_i, pattern_i, at>>

\* The body of the loop over the tokens ends: with the exception a matcher
\* raised, which ends the generator, or normally.
TokenDone ==
    /\ pc = "running"
    /\ at = "yield"
    /\ Len(pending.out) = 0
    /\ pc' = IF pending.err /= "none" THEN pending.err ELSE pc
    /\ at' = "tokens"
    /\ pending' = NoMatches
    /\ UNCHANGED <<doc, pattern, forward, tok_i, attempted, results, call, added>>
    /\ UNCHANGED <<lazy_vars, texts, patterns, docs, text_i, pattern_i>>

NextQuery ==
    \/ /\ pc = "idle"
       /\ \E n \in 0..MaxPatterns, m \in 0..MaxTexts :
             \E ps \in ListsOf(QueryPatterns, n), ts \in ListsOf(QueryItems, m) :
                \E bw \in BOOLEAN : MatchPatterns(ps, ts, bw)
    \/ Pull
    \/ Close
    \/ NextText
    \/ NextPattern
    \/ NextToken
    \/ YieldSpan
    \/ TokenDone

SpecQuery == InitQuery /\ [][NextQuery]_vars

(***************************************************************************)
(* Properties.  The reference notions below are sets of positions, free of *)
(* the generators' order, of their duplicate lists and of attributes.      *)
(***************************************************************************)
\* The positions at which the matches of x from pos stop.
next_positions(x, d, pos, fwd) ==
    LET g == match_from(x, d, pos, fwd, {})
    IN {g.out[i].np : i \in 1..Len(g.out)}

\* The extent of a match that starts at pos and stops at e.
Range(pos, e, fwd) == IF fwd THEN <<pos, e>> ELSE <<e, pos>>

Extent(y) == <<y.sp.start_char, y.sp.end_char>>

\* The positions reached from pos by k consecutive matches of x.
RECURSIVE ChainEnds(_, _, _, _, _)
ChainEnds(x, d, pos, fwd, k) ==
    IF k = 0 THEN {pos}
    ELSE UNION {ChainEnds(x, d, e, fwd, k - 1) : e \in next_positions(x, d, pos, fwd)}

InBounds(q, k) == q.arity_min <= k /\ (q.arity_max = <<>> \/ k <= q.arity_max[1])

QuantifierCall ==
    /\ call.kind = "match_from"
    /\ call.pattern.kind = "RepeatedPattern"
    /\ call.err = "none"

SequenceCall ==
    /\ call.kind = "match_from"
    /\ call.pattern.kind = "Pattern"
    /\ call.err = "none"

\* The subpatterns in the order the matching direction visits them.
Traversal(subpatterns, fwd) ==
    IF fwd THEN subpatterns
    ELSE [i \in 1..Len(subpatterns) |-> subpatterns[Len(subpatterns) + 1 - i]]

\* C1: for every pattern and document, the full scan Pattern.match(D,
\* forward=True) and the full scan Pattern.match(D, forward=False) yield the
\* same set of spans (offsets and attribute map): once a scan in one
\* direction has ended, the scan in the other direction ends as well and
\* its set of spans is the same.
C1_DirectionInvariance ==
    pc = "done" =>
        LET other == Pattern_match(pattern, doc, ~forward, 1, NoMatches)
        IN /\ other.err = "none"
           /\ SpanSet(other.out) = {results[i] : i \in 1..Len(results)}

\* C2: RepeatedPattern.match_from yields, for every repetition count k
\* within [arity_min, arity_max] (no arity_max: unbounded) for which k
\* consecutive matches of the subpattern exist from the position, the span
\* accumulated over those k repetitions, not only the longest; with
\* arity_min 0 that includes the empty span at the position (k = 0).
C2_QuantifierCompleteness ==
    QuantifierCall =>
        \A k \in 0..Len(doc.text) :
            InBounds(call.pattern, k) =>
                \A e \in ChainEnds(call.pattern.subpattern, doc, call.position,
                                   call.forward, k) :
                    \E i \in 1..Len(call.out) :
                        /\ call.out[i].np = e
                        /\ Extent(call.out[i]) = Range(call.position, e, call.forward)

\* A quantifier yielded three different repetition counts from one position.
C2_Witness ==
    /\ QuantifierCall
    /\ call.pattern.arity_min = 1
    /\ Cardinality({span_len(call.out[i].sp) : i \in 1..Len(call.out)}) >= 3

\* C3: every span RepeatedPattern.match_from yields is the concatenation of
\* k consecutive subpattern matches with arity_min <= k <= arity_max, never
\* more than arity_max repetitions, including arity_max = 0 (pattern[0],
\* pattern[0:0]).
C3_QuantifierBounds ==
    QuantifierCall =>
        \A i \in 1..Len(call.out) :
            \E k \in 0..Len(doc.text) :
                /\ InBounds(call.pattern, k)
                /\ call.out[i].np \in ChainEnds(call.pattern.subpattern, doc,
                                                call.position, call.forward, k)
                /\ Extent(call.out[i]) = Range(call.position, call.out[i].np, call.forward)

\* C4: a + b raises (no span results) whenever a.end_char /= b.start_char
\* and whenever a and b are of different documents, whatever their offsets;
\* otherwise it returns a span of the same document over
\* [a.start_char, b.end_char).  The operands are only read.
C4_SpanAddErrors ==
    added.kind = "add" =>
        IF added.a.doc /= added.b.doc \/ added.a.end_char /= added.b.start_char
        THEN added.result = ValueError
        ELSE /\ added.result /= ValueError
             /\ added.result.doc = added.a.doc
             /\ added.result.start_char = added.a.start_char
             /\ added.result.end_char = added.b.end_char

\* Two spans of different documents with adjacent offsets were added.
C4_Witness ==
    /\ added.kind = "add"
    /\ added.a.doc /= added.b.doc
    /\ added.a.end_char = added.b.start_char
    /\ added.a.start_char < added.b.end_char
    /\ added.result = ValueError

\* C5: in the span a + b, a key of both attribute maps holds the left
\* operand's (a's) value, and a key of only one operand keeps its value.
C5_LeftPriority ==
    (added.kind = "add" /\ added.result /= ValueError) =>
        /\ DOMAIN added.result.attributes
              = DOMAIN added.a.attributes \cup DOMAIN added.b.attributes
        /\ \A n \in DOMAIN added.result.attributes :
              added.result.attributes[n] =
                  IF n \in DOMAIN added.a.attributes THEN added.a.attributes[n]
                  ELSE added.b.attributes[n]

\* The positions reached from pos by matching elements[i..] one directly
\* after the other.
RECURSIVE AbutEnds(_, _, _, _, _)
AbutEnds(elements, d, pos, fwd, i) ==
    IF i > Len(elements) THEN {pos}
    ELSE UNION {AbutEnds(elements, d, e, fwd, i + 1) :
                    e \in next_positions(elements[i], d, pos, fwd)}

\* C6: a Pattern with allow_inbetween=None yields only spans that are the
\* exact concatenation of its elements' matches: each element's match starts
\* (forward) or ends (backward) where the previous one stopped, so nothing is
\* yielded when a token lies between two consecutive elements.
C6_NoFillerAbut ==
    (SequenceCall /\ call.pattern.allow_inbetween = AllowNone) =>
        \A i \in 1..Len(call.out) :
            /\ call.out[i].np \in AbutEnds(Traversal(call.pattern.subpatterns, call.forward),
                                           doc, call.position, call.forward, 1)
            /\ Extent(call.out[i]) = Range(call.position, call.out[i].np, call.forward)

\* A Pattern of several elements and no filler yielded a span.
C6_Witness ==
    /\ SequenceCall
    /\ call.pattern.allow_inbetween = AllowNone
    /\ Len(call.pattern.subpatterns) >= 2
    /\ \E i \in 1..Len(call.out) : span_len(call.out[i].sp) >= 2

\* The Pattern p with its filler under the quantifier [:].
ZeroOrMore(p) == [p EXCEPT !.allow_inbetween = getitem_slice(@, <<>>, <<>>)]

\* C7: a Pattern built with a pattern object F as allow_inbetween matches
\* the gap between consecutive elements by F under an implicit zero-or-more
\* quantifier: abutting elements and any number of consecutive F matches are
\* accepted, whatever F is.  So the spans are those of the same Pattern with
\* F[:] as its filler.
C7_FillerZeroOrMore ==
    (SequenceCall /\ call.pattern.allow_inbetween.kind \notin {"None", "str"}) =>
        SpanSet(call.out)
            = SpanSet(match_from(ZeroOrMore(call.pattern), doc, call.position,
                                 call.forward, {}).out)

\* The positions reached from pos through elements[i..] with a filler match
\* in every gap, a non-empty filler match being refused when the element
\* right before it or the element right after it matched an empty span.
\* after_gap: the gap before elements[i] is not empty.
RECURSIVE StrictEnds(_, _, _, _, _, _, _)
StrictEnds(elements, filler, d, pos, fwd, i, after_gap) ==
    LET stops == {e \in next_positions(elements[i], d, pos, fwd) : ~(after_gap /\ e = pos)}
    IN IF i = Len(elements) THEN stops
       ELSE UNION {UNION {StrictEnds(elements, filler, d, g, fwd, i + 1, g /= e) :
                            g \in {x \in next_positions(filler, d, e, fwd) :
                                        ~(x /= e /\ e = pos)}} :
                    e \in stops}

\* The same, a non-empty filler match being refused when the element matched
\* right before it (in traversal order) is empty or when all that is matched
\* after it, the remaining elements with their fillers, is empty.
RECURSIVE GapEnds(_, _, _, _, _, _)
GapEnds(elements, filler, d, pos, fwd, i) ==
    IF i = Len(elements) THEN next_positions(elements[i], d, pos, fwd)
    ELSE UNION {UNION {{r \in GapEnds(elements, filler, d, g, fwd, i + 1) :
                            ~(g /= e /\ (e = pos \/ r = g))} :
                        g \in next_positions(filler, d, e, fwd)} :
                    e \in next_positions(elements[i], d, pos, fwd)}

FillerCall == SequenceCall /\ resolved_inbetween(call.pattern).kind /= "None"

\* C8 as stated: in a Pattern with a filler, a non-empty filler match between
\* element i and element i+1 is refused whenever element i or element i+1
\* matched an empty span, so every yielded span has a derivation in which no
\* non-empty filler match stands next to an empty element.
C8_AdjacentElementRule ==
    FillerCall =>
        \A i \in 1..Len(call.out) :
            call.out[i].np \in StrictEnds(Traversal(call.pattern.subpatterns, call.forward),
                                          resolved_inbetween(call.pattern), doc,
                                          call.position, call.forward, 1, FALSE)

\* C8 amended: a non-empty filler match is refused exactly when the element
\* matched right before it in traversal order is empty, or when the combined
\* match of all the remaining elements (with their fillers) is empty; the
\* yielded spans are those of the derivations left, in both directions.
C8_FillerRejection ==
    FillerCall =>
        {<<Extent(call.out[i]), call.out[i].np>> : i \in 1..Len(call.out)}
            = {<<Range(call.position, e, call.forward), e>> :
                 e \in GapEnds(Traversal(call.pattern.subpatterns, call.forward),
                               resolved_inbetween(call.pattern), doc,
                               call.position, call.forward, 1)}

\* An empty optional first element, then spaces, then the second element:
\* nothing is yielded from the position before the spaces.
C8_Witness ==
    /\ FillerCall
    /\ call.pattern = Pattern(<<getitem_slice(A, <<0>>, <<1>>), One>>, SPACES, <<>>)
    /\ doc.text = <<" ", "1">>
    /\ call.position = 0
    /\ call.forward
    /\ call.out = <<>>

\* C9: one top-level call of Pattern.match_from never yields two equal
\* spans (same document, offsets and attribute map), also when the Pattern
\* has an as_attribute.
C9_NoDuplicates ==
    (call.kind = "match_from" /\ call.pattern.kind = "Pattern") =>
        \A i, j \in 1..Len(call.out) :
            i /= j => ~Span_eq(call.out[i].sp, call.out[j].sp)

\* The token boundaries of a document: offset 0 and every token's end.
Boundaries(d) ==
    <<0>> \o [k \in 1..Len(doc_tokens(d)) |-> doc_tokens(d)[k].end_char]

\* What match_from yields at each of the positions, in order.
RECURSIVE MatchesAt(_, _, _, _)
MatchesAt(p, d, fwd, positions) ==
    IF positions = <<>> THEN <<>>
    ELSE SpanSeq(match_from(p, d, Head(positions), fwd, {}).out)
            \o MatchesAt(p, d, fwd, Tail(positions))

Registered(target, name) == attr_factories(analyzers, target, name) /= <<>>

SameAttribute(i, j) ==
    /\ accesses[i].target = accesses[j].target
    /\ accesses[i].name = accesses[j].name

WritesOf(target, name) ==
    {i \in 1..Len(writes) : writes[i].target = target /\ writes[i].name = name}

\* C12: for an entity with lazy attributes (Doc, Token, Word) and a name
\* that has registered analyzers, only the first access invokes analyzers;
\* every later access returns the cached value, invokes no analyzer, and
\* returns the same object as every other access that returned.
C12_FirstAccessOnly ==
    \A i \in 1..Len(accesses) : \A j \in 1..Len(accesses) :
        (i < j /\ SameAttribute(i, j) /\ Registered(accesses[i].target, accesses[i].name))
        => /\ \A k \in 1..Len(invoked) : invoked[k].access /= j
           /\ accesses[j].err = "none"
           /\ (accesses[i].err = "none" => accesses[j].obj = accesses[i].obj)

\* C13: under the default NLP configuration (Tokenizer and the two
\* WordsAnalyzers) the cache entries Doc.tokens and Doc.words are each
\* assigned at most once.
C13_WrittenOnce ==
    analyzers = DEFAULT_ANALYZERS
    => /\ Cardinality(WritesOf("Doc", "tokens")) <= 1
       /\ Cardinality(WritesOf("Doc", "words")) <= 1

\* C14: an analyzer asked to compute an attribute that is already cached
\* fails with an error and assigns nothing to the cache.
C14_AnalyzersRefuseCached ==
    (call.kind = "eval_attribute" /\ call.cached)
    => (call.err /= "none" /\ call.wrote = 0)

\* The attribute read that a step of the caller begins.
Accessed == accesses'[Len(accesses) + 1]

\* Reading entity.name finds no cached value and no registered analyzer.
Unserved(target, name) ==
    /\ ~Registered(target, name)
    /\ target = "Doc" => name \notin DOMAIN doc.lazy_attributes
    /\ target = "Word" => name \notin DOMAIN word.lazy_attributes
    /\ target = "Token" => Token_getattr(name) /= "none"

\* C15: reading an attribute that is not cached and has no registered
\* analyzer raises AttributeError, invokes no analyzer and assigns nothing
\* to any cache; so does doc.words without a registered WordsAnalyzer.
C15_NoAnalyzerError ==
    [][(Len(accesses') > Len(accesses) /\ Unserved(Accessed.target, Accessed.name))
       => /\ Accessed.err = "AttributeError"
          /\ writes' = writes
          /\ invoked' = invoked
          /\ doc'.lazy_attributes = doc.lazy_attributes]_vars

C15_Witness ==
    /\ attr_factories(analyzers, "Doc", "words") = <<>>
    /\ \E j \in 1..Len(accesses) :
          /\ accesses[j].target = "Doc"
          /\ accesses[j].name = "words"
          /\ accesses[j].err = "AttributeError"
    /\ "words" \notin DOMAIN doc.lazy_attributes
    /\ \E j \in 1..Len(accesses) : accesses[j].target = "Word" /\ accesses[j].err = "AttributeError"

(***************************************************************************)
(* Construction of patterns (SpecConstruct).                               *)
(***************************************************************************)
\* C16: Pattern() with an empty list of sub-patterns raises ValueError at
\* construction, so no Pattern object with zero elements exists.
C16_EmptySequenceRejected ==
    call.kind = "Pattern"
    => /\ Len(call.subpatterns) = 0 => call.result.kind = "ValueError"
       /\ call.result.kind = "Pattern" => Len(call.result.subpatterns) > 0

C16_Witness ==
    /\ call.kind = "Pattern"
    /\ Len(call.subpatterns) = 0
    /\ call.result.kind = "ValueError"

\* The bounds lower:upper are invalid: a negative minimum, or a maximum
\* below the minimum.
InvalidBounds(lower, upper) ==
    \/ lower /= None /\ lower[1] < 0
    \/ upper /= None /\ upper[1] < (IF lower = None THEN 0 ELSE lower[1])

\* C17: building a quantifier with invalid bounds (pattern[3:1],
\* pattern[-1:2]) fails at construction: no RepeatedPattern is returned.
C17_InvalidBoundsRejected ==
    (call.kind = "getitem" /\ InvalidBounds(call.lower, call.upper))
    => call.result.kind /= "RepeatedPattern"

(***************************************************************************)
(* as_attribute (Spec).                                                    *)
(***************************************************************************)
Named(p) == p.kind = "Pattern" /\ p.as_attribute /= <<>>

\* The as_attribute names of the Patterns inside the elements of p.
RECURSIVE names_of(_)
names_in(p) ==
    CASE p.kind = "Pattern" ->
            UNION {names_of(p.subpatterns[i]) : i \in 1..Len(p.subpatterns)}
      [] p.kind = "OrPattern" ->
            UNION {names_of(p.subpatterns[i]) : i \in 1..Len(p.subpatterns)}
      [] p.kind = "RepeatedPattern" -> names_of(p.subpattern)
      [] OTHER -> {}

names_of(p) == names_in(p) \cup (IF Named(p) THEN {p.as_attribute[1]} ELSE {})

\* The span sp carries the attribute n with the text of sp as its value.
Carries(sp, n) ==
    /\ n \in DOMAIN sp.attributes
    /\ sp.attributes[n] = span_text(doc.text, sp)

\* The span sp carries the attribute of the named sub-sequence e: the text
\* of a match of e that lies inside sp.
CarriesFrom(sp, e, fwd) ==
    /\ e.as_attribute[1] \in DOMAIN sp.attributes
    /\ \E q \in sp.start_char..sp.end_char :
          \E y \in SpanSet(match_from(e, doc, q, fwd, {}).out) :
             /\ sp.start_char <= y.start_char
             /\ y.end_char <= sp.end_char
             /\ sp.attributes[e.as_attribute[1]] = span_text(doc.text, y)

\* A Sequence with as_attribute = n has been matched from a position.
NamedCall ==
    /\ pc = "called"
    /\ call.kind = "match_from"
    /\ Named(call.pattern)

\* C20: every span a Sequence with as_attribute = n yields carries
\* attributes[n] = the full text of that span; the spans of its internal
\* calls over the whole or a part of its element list carry no attribute n
\* of their own; and the attribute of a named sub-sequence (under another
\* name) is carried into every enclosing span.
C20_AsAttribute ==
    /\ NamedCall =>
          LET p == call.pattern
              n == p.as_attribute[1]
              whole == Pattern_frame(p, doc, call.position, call.forward, p.subpatterns, {})
          IN /\ \A k \in 1..Len(call.out) : Carries(call.out[k].sp, n)
             /\ n \notin names_in(p)
                   => /\ \A k \in 1..Len(whole.out) : n \notin DOMAIN whole.out[k].sp.attributes
                      /\ \A i \in 2..Len(p.subpatterns) : \A q \in 0..Len(doc.text) :
                            \A y \in SpanSet(Pattern_frame(p, doc, q, call.forward,
                                               SubSeq(p.subpatterns, i, Len(p.subpatterns)), {}).out) :
                               n \notin DOMAIN y.attributes
             /\ \A i \in 1..Len(p.subpatterns) :
                   (Named(p.subpatterns[i]) /\ p.subpatterns[i].as_attribute[1] /= n)
                   => \A k \in 1..Len(call.out) :
                         CarriesFrom(call.out[k].sp, p.subpatterns[i], call.forward)
    /\ (pc \in {"scanning", "done"} /\ Named(pattern))
          => \A k \in 1..Len(results) : Carries(results[k], pattern.as_attribute[1])

\* A Sequence named n around a sub-sequence named m has yielded a span.
C20_Witness ==
    /\ NamedCall
    /\ Len(call.out) > 0
    /\ \E i \in 1..Len(call.pattern.subpatterns) :
          /\ Named(call.pattern.subpatterns[i])
          /\ call.pattern.subpatterns[i].as_attribute /= call.pattern.as_attribute
    /\ Len(call.pattern.subpatterns) > 1

(***************************************************************************)
(* squeeze_words (SpecWords).                                              *)
(***************************************************************************)
\* The sum of the scores of the words of the list that equal w on
\* everything but the score, from the i-th word on.
RECURSIVE SumScores(_, _, _)
SumScores(words, w, i) ==
    IF i > Len(words) THEN 0
    ELSE SumScores(words, w, i + 1)
         + (IF word_state(words[i], None, None) = word_state(w, None, None)
            THEN words[i].lazy_attributes["score"] ELSE 0)

Min(a, b) == IF a <= b THEN a ELSE b

\* C18: squeeze_words merges the candidates that are equal on everything
\* but the score into one Word whose score is min(1, sum of their scores):
\* 0.6 and 0.5 give 1.0, 0.3 and 0.4 give 0.7 (scores in tenths).
C18_MergedScore ==
    (call.kind = "squeeze_words" /\ call.keep_only = None /\ call.ignore_only = None)
    => /\ \A i \in 1..Len(call.words) : \E k \in 1..Len(call.result.words) :
             word_state(call.result.words[k], None, None) = word_state(call.words[i], None, None)
       /\ \A k \in 1..Len(call.result.words) :
             /\ call.result.words[k].lazy_attributes["score"]
                   = Min(10, SumScores(call.words, call.result.words[k], 1))
             /\ \A j \in 1..Len(call.result.words) :
                   word_state(call.result.words[k], None, None)
                      = word_state(call.result.words[j], None, None) => j = k

(***************************************************************************)
(* NLP.match_patterns (SpecQuery).                                         *)
(***************************************************************************)
\* The boundary a yielded span is anchored at: where its match began.
Anchor(sp) == IF forward THEN sp.start_char ELSE sp.end_char

\* The spans yielded so far for the i-th text and the j-th pattern.
YieldedFor(i, j) ==
    SpanSeq(SelectSeq(results, LAMBDA r : r.text = i /\ r.pattern = j))

InOrder(a, b) ==
    \/ a.text < b.text
    \/ a.text = b.text /\ a.pattern < b.pattern
    \/ a.text = b.text /\ a.pattern = b.pattern /\ Anchor(a.sp) <= Anchor(b.sp)

\* C11: match_patterns yields its spans grouped by text in the order of
\* texts, within a text grouped by pattern in the order of patterns, and
\* within one text and pattern in non-decreasing order of the anchoring
\* boundary (the start offset forward, the end offset backward); each span
\* is a span of the Doc of its text, a str being wrapped into a new Doc;
\* and a generator that ends normally has yielded, for every text and every
\* pattern, what Pattern.match yields for them.
C11_QueryOrder ==
    pc /= "idle"
    => /\ \A k \in 1..(Len(results) - 1) : InOrder(results[k], results[k + 1])
       /\ \A k \in 1..Len(results) : results[k].sp.doc = docs[results[k].text].id
       /\ \A i \in 1..text_i :
             texts[i].kind = "str"
             => /\ docs[i].id = DocId("wrapped", i)
                /\ docs[i].text = texts[i].text
       /\ pc = "finished"
             => /\ text_i = Len(texts)
                /\ \A i \in 1..Len(texts) : \A j \in 1..Len(patterns) :
                      YieldedFor(i, j)
                         = SpanSeq(Pattern_match(patterns[j], docs[i], forward, 1, NoMatches).out)

\* Two patterns have been matched against two texts, one of them a str,
\* and both texts and both patterns have yielded spans.
C11_Witness ==
    /\ pc = "finished"
    /\ Len(texts) = 2
    /\ Len(patterns) = 2
    /\ \E i \in 1..2 : texts[i].kind = "str"
    /\ \A i \in 1..2 : \E k \in 1..Len(results) : results[k].text = i
    /\ \A j \in 1..2 : \E k \in 1..Len(results) : results[k].pattern = j
    /\ \E k \in 1..(Len(results) - 1) :
          /\ results[k].text = results[k + 1].text
          /\ results[k].pattern = results[k + 1].pattern
          /\ Anchor(results[k].sp) < Anchor(results[k + 1].sp)

Tokenized(d) == "tokens" \in DOMAIN d.lazy_attributes

\* The generator is not running: it is not yet started, suspended at a
\* yield, closed by the caller, or ended.
Waiting == pc \in {"created", "suspended", "closed", "finished"}

C21_PatternsImmutable ==
    /\ [](pc = "called" => pattern = call.pattern)
    /\ [][pc = "scanning" => pattern' = pattern]_vars

(***************************************************************************)
(* Tokenization on its own: a caller reads doc.tokens of a document whose  *)
(* text may hold characters that token_regex matches in no way ("_").      *)
(***************************************************************************)
MaxTextLen == 4

TokenAlphabet == {"a", "1", ":", " ", "_"}

RECURSIVE TokenTextsOfLen(_)
TokenTextsOfLen(n) ==
    IF n = 0 THEN {<<>>}
    ELSE {Append(t, c) : t \in TokenTextsOfLen(n - 1), c \in TokenAlphabet}

TokenTexts == UNION {TokenTextsOfLen(n) : n \in 0..MaxTextLen}

InitTokens ==
    /\ doc \in {Doc(t) : t \in TokenTexts}
    /\ NoMatch
    /\ NoAccess
    /\ NoQuery

\* doc.tokens, first access: Tokenizer.eval_tokens stores the list.
Tokenize ==
    /\ pc = "idle"
    /\ doc' = Doc_with_tokens(doc)
    /\ call' = [kind |-> "tokens", links |-> token_links(doc_tokens(doc))]
    /\ pc' = "tokenized"
    /\ UNCHANGED <<pattern, forward, tok_i, attempted, results, added, lazy_vars, query_vars>>

NextTokens == Tokenize

SpecTokens == InitTokens /\ [][NextTokens]_vars

\* C22: the tokens of a document are an ordered partition of its text
\* without gaps: the first token starts at 0, the last ends at len(text),
\* each token ends where the next starts, every token is non-empty and its
\* text is document.text[start:end], the previous/next links are mutually
\* consistent, and an empty text has an empty token list.
C22_TokensPartition ==
    pc = "tokenized"
    => LET tokens == doc.lazy_attributes["tokens"]
           links == call.links
           n == Len(tokens)
       IN /\ Len(doc.text) = 0 => n = 0
          /\ Len(doc.text) > 0 => /\ n > 0
                                  /\ tokens[1].start_char = 0
                                  /\ tokens[n].end_char = Len(doc.text)
          /\ \A k \in 1..n :
                /\ tokens[k].start_char < tokens[k].end_char
                /\ tokens[k].text
                      = SubSeq(doc.text, tokens[k].start_char + 1, tokens[k].end_char)
                /\ k < n => /\ tokens[k].end_char = tokens[k + 1].start_char
                            /\ links[k].next_token = <<k + 1>>
                            /\ links[k + 1].previous_token = <<k>>
                /\ k = n => links[k].next_token = <<>>
                /\ k = 1 => links[k].previous_token = <<>>

\* A text with a character between two matches of token_regex has been
\* tokenized into three linked tokens.
C22_Witness ==
    /\ pc = "tokenized"
    /\ doc.text = <<"a", "_", "1">>
    /\ Len(doc.lazy_attributes["tokens"]) = 3
    /\ call.links[2] = [previous_token |-> <<1>>, next_token |-> <<3>>]

(***************************************************************************)
(* Full scans (Pattern.match) of the example texts of the documentation,   *)
(* and of every short text, with quantifiers wrapped in a Sequence and     *)
(* with Sequences whose first element is optional.                         *)
(***************************************************************************)
Aaaa == <<"a", "a", "a", "a">>
Colons == <<":", ":", ":", ":">>
FromTo == <<"a", " ", "1", " ", ":">>

ScanTexts == Texts \cup {Aaaa, Colons, FromTo}

Scan13(x) == Pattern(<<getitem_slice(x, <<1>>, <<3>>)>>, SPACES, None)
OptionalFirst(rest) == Pattern(<<getitem_slice(A, <<0>>, <<1>>)>> \o rest, SPACES, None)

ScanPatterns ==
    {Scan13(A), Scan13(Colon), OptionalFirst(<<One>>), OptionalFirst(<<One, Colon>>)}

InitScan ==
    /\ doc \in {Doc(t) : t \in ScanTexts}
    /\ NoMatch
    /\ NoAccess
    /\ NoQuery

NextScan ==
    \/ \E p \in ScanPatterns, fwd \in BOOLEAN : Match(p, fwd)
    \/ MatchToken

SpecScan == InitScan /\ [][NextScan]_vars

Extents(rs) == {<<rs[i].start_char, rs[i].end_char>> : i \in 1..Len(rs)}

NoDuplicates(rs) == \A i, j \in 1..Len(rs) : rs[i] = rs[j] => i = j

\* C23 as stated: scanning "aaaa" with the quantifier [1,3] over the token
\* predicate with text "a" yields matches of length 1, 2 and 3.
C23_AaaaLengths ==
    (pc = "done" /\ doc.text = Aaaa /\ pattern = Scan13(A))
    => {span_len(results[i]) : i \in 1..Len(results)} = {1, 2, 3}

\* C23, amended: the Tokenizer makes one token of a run of letters, so
\* "aaaa" is the single token "aaaa", which the predicate with text "a"
\* does not match: the scan yields nothing.  On a text of one-character
\* tokens that the predicate matches (a run of ":" for the predicate with
\* text ":") the scan yields, once each, every span of 1, 2 or 3
\* consecutive tokens, so lengths 1, 2 and 3 on "::::".
C23_QuantifierScan ==
    /\ (pc = "done" /\ doc.text = Aaaa /\ pattern = Scan13(A))
       => /\ Len(doc_tokens(doc)) = 1
          /\ results = <<>>
    /\ (pc = "done" /\ pattern = Scan13(Colon) /\ Len(doc.text) > 0
        /\ \A i \in 1..Len(doc.text) : doc.text[i] = ":")
       => /\ Extents(results)
                = {<<s, e>> \in (0..Len(doc.text)) \X (0..Len(doc.text)) :
                      e - s \in 1..3}
          /\ NoDuplicates(results)

\* The scan of "aaaa", tokenized into the single token "aaaa", has ended
\* without a match.
C23_Witness ==
    /\ pc = "done"
    /\ doc.text = Aaaa
    /\ pattern = Scan13(A)
    /\ forward
    /\ Len(doc_tokens(doc)) = 1
    /\ results = <<>>

\* The scan of "::::" has ended with matches of lengths 1, 2 and 3.
ColonsScanned ==
    /\ pc = "done"
    /\ doc.text = Colons
    /\ pattern = Scan13(Colon)
    /\ forward
    /\ {span_len(results[i]) : i \in 1..Len(results)} = {1, 2, 3}

OptionalFirstScanned(rest) ==
    /\ pc = "done"
    /\ pattern.kind = "Pattern"
    /\ pattern.subpatterns = OptionalFirst(rest).subpatterns

\* The ends of the runs of tokens from token k on that are the required
\* elements rest in order, one whitespace token allowed between two.
RECURSIVE RequiredFrom(_, _, _)
RequiredFrom(tokens, k, rest) ==
    IF k > Len(tokens) THEN {}
    ELSE IF tokens[k].text /= rest[1].text[1] THEN {}
    ELSE IF Len(rest) = 1 THEN {tokens[k].end_char}
    ELSE RequiredFrom(tokens, k + 1, Tail(rest))
         \cup (IF k + 1 <= Len(tokens) /\ str_isspace(tokens[k + 1].text)
               THEN RequiredFrom(tokens, k + 2, Tail(rest)) ELSE {})

\* The occurrences: the required elements alone, from their first token,
\* and the optional element "a" followed by them.
Occurrences(tokens, rest) ==
    UNION {{<<tokens[k].start_char, e>> : e \in RequiredFrom(tokens, k, rest)} :
                  k \in 1..Len(tokens)}
    \cup UNION {{<<tokens[k].start_char, e>> :
                      e \in RequiredFrom(tokens, k + 1, rest)
                            \cup (IF k + 1 <= Len(tokens) /\ str_isspace(tokens[k + 1].text)
                                  THEN RequiredFrom(tokens, k + 2, rest) ELSE {})} :
                  k \in {j \in 1..Len(tokens) : tokens[j].text = <<"a">>}}

\* C25: a full scan with a Sequence with the default whitespace filler, an
\* optional first element ([0:1]) and required remaining elements yields,
\* once each, exactly the occurrences of the required elements with and
\* without the optional element before them: where the optional element is
\* present, the span that includes it and the span that starts at the first
\* required element (never at the whitespace before it); a text with only
\* a part of the required elements yields nothing.
C25_OptionalFirst ==
    \A rest \in {<<One>>, <<One, Colon>>} :
        OptionalFirstScanned(rest)
        => /\ Extents(results) = Occurrences(doc_tokens(doc), rest)
           /\ NoDuplicates(results)
           /\ (\A k \in 1..Len(doc.text) : doc.text[k] /= rest[Len(rest)].text[1][1])
              => results = <<>>

\* The scan of "a 1 :" (optional "a", then "1" and ":") has yielded the
\* whole text and the span from "1" on, and nothing else.
C25_Witness ==
    /\ OptionalFirstScanned(<<One, Colon>>)
    /\ doc.text = FromTo
    /\ forward
    /\ Len(results) = 2
    /\ Extents(results) = {<<0, 5>>, <<2, 5>>}

(***************************************************************************)
(* Word growth on its own: a caller tokenizes a document and then calls    *)
(* the WordsAnalyzer for a token (eval_words_forward / eval_words_backward *)
(* through eval_attribute), or reads token.words_starting_here,            *)
(* token.words_ending_here or doc.words.  The analyzer is built with       *)
(* character sets over the characters of the texts: "a" may start and end  *)
(* a word, "'" may stand inside one, "_" is deleted by the replacements    *)
(* (as the combining accent is by the defaults for 'uk').                  *)
(***************************************************************************)
MaxGrowthLen == 3

MaxCalls == 2

GrowthAlphabet == {"a", "'", "_"}

RECURSIVE GrowthTextsOfLen(_)
GrowthTextsOfLen(n) ==
    IF n = 0 THEN {<<>>}
    ELSE {Append(t, c) : t \in GrowthTextsOfLen(n - 1), c \in GrowthAlphabet}

GrowthTexts == UNION {GrowthTextsOfLen(n) : n \in 0..MaxGrowthLen}

GrowthAnalyzer ==
    WordsAnalyzer_init("uk", {"a", "'"}, {"a"}, {"a"},
                       [c \in {"_"} |-> <<>>])

InitGrowth ==
    /\ doc \in {Doc(t) : t \in GrowthTexts}
    /\ NoMatch
    /\ analyzers = <<Tokenizer, GrowthAnalyzer>>
    /\ word = Word(<<"a">>, 0, 1, "uk", 6)
    /\ writes = <<>>
    /\ invoked = <<>>
    /\ accesses = <<>>
    /\ NoQuery

\* analyzer.eval_attribute(doc.tokens[k], name), called by the caller; w is
\* the state the call leaves.  `results` logs what each call did: the
\* exception it raised and the candidates it left in the cache of the
\* token (None: the token has no cache).
EvalWords_done(name, k, w) ==
    /\ Stored(w)
    /\ results' = Append(results, [name |-> name, token |-> k, err |-> w.err,
                                   words |-> IF "Token" \in DOMAIN w.cache
                                             THEN <<w.cache["Token"]>> ELSE None])

EvalWords(name, k) ==
    /\ pc = "tokenized"
    /\ Len(results) < MaxCalls
    /\ k \in 1..Len(doc_tokens(doc))
    /\ EvalWords_done(name, k, eval_attribute(GrowthAnalyzer, World, "Token", name, 0))
    /\ UNCHANGED <<pattern, forward, pc, tok_i, attempted, call, added>>
    /\ UNCHANGED <<analyzers, word, query_vars>>

NextGrowth ==
    \/ Tokenize
    \/ \E name \in {"words_starting_here", "words_ending_here"}, k \in 1..MaxGrowthLen :
          EvalWords(name, k)
    \/ \E name \in {"words_starting_here", "words_ending_here"} :
          pc = "tokenized" /\ GetAttr("Token", name)
    \/ pc = "tokenized" /\ GetAttr("Doc", "words")

SpecGrowth == InitGrowth /\ [][NextGrowth]_vars

\* The string a word is analyzed as: every character replaced as the
\* replacements of the analyzer say.
RECURSIVE normalized(_, _)
normalized(analyzer, s) ==
    IF s = <<>> THEN <<>>
    ELSE (IF s[1] \in DOMAIN analyzer.char_replacements
          THEN analyzer.char_replacements[s[1]] ELSE <<s[1]>>)
         \o normalized(analyzer, Tail(s))

\* The normalized text of the tokens s..e of the document.
Accumulated(analyzer, s, e) ==
    normalized(analyzer, SubSeq(doc.text, doc_tokens(doc)[s].start_char + 1,
                                doc_tokens(doc)[e].end_char))

\* A string growth may go on from: not empty, of word characters only, and
\* begun by a first character.
Growable(analyzer, str) ==
    /\ str /= <<>>
    /\ \A i \in 1..Len(str) : LowerChar(str[i]) \in analyzer.word_chars
    /\ LowerChar(str[1]) \in analyzer.first_chars

\* The end tokens for which forward growth from the anchor token s is to
\* produce candidates.
ForwardEnds(analyzer, s) ==
    {e \in s..Len(doc_tokens(doc)) :
        /\ \A k \in s..e : Growable(analyzer, Accumulated(analyzer, s, k))
        /\ LowerChar(Accumulated(analyzer, s, e)[Len(Accumulated(analyzer, s, e))])
              \in analyzer.last_chars}

\* The end tokens of the candidates a call left in the cache of its token.
ProducedEnds(r) ==
    IF r.words = None \/ r.name \notin DOMAIN r.words[1] THEN {}
    ELSE {e \in 1..Len(doc_tokens(doc)) :
             \E i \in 1..Len(r.words[1][r.name]) :
                r.words[1][r.name][i].end_char = doc_tokens(doc)[e].end_char}

\* C27: forward growth from an anchor token produces candidates for exactly
\* the end tokens e such that every accumulated, normalized string from the
\* anchor to a token up to e is non-empty, of word characters only and
\* begun by a first character, and the string accumulated up to e ends with
\* a last character.
C27_ForwardGrowth ==
    \A i \in 1..Len(results) :
        (pc = "tokenized" /\ results[i].name = "words_starting_here")
        => ProducedEnds(results[i]) = ForwardEnds(GrowthAnalyzer, results[i].token)

\* C26: forward and backward growth mirror each other: for tokens s <= e,
\* s.words_starting_here and e.words_ending_here are both computed, and a
\* candidate of the range [s.start_char, e.end_char] is among the one
\* exactly when one is among the other.
C26_MirrorGrowth ==
    \A i, j \in 1..Len(results) :
        (/\ pc = "tokenized"
         /\ results[i].name = "words_starting_here"
         /\ results[j].name = "words_ending_here"
         /\ results[i].token <= results[j].token)
        => /\ results[i].err = "none"
           /\ results[j].err = "none"
           /\ results[j].token \in ProducedEnds(results[i])
              <=> \E k \in 1..Len(results[j].words[1]["words_ending_here"]) :
                     results[j].words[1]["words_ending_here"][k].start_char
                        = doc_tokens(doc)[results[i].token].start_char

\* C28: once doc.words has been read, every token has its cache of
\* words_starting_here, the list of the document holds no two Words equal
\* but for their score, and it holds, up to that equality, exactly the
\* Words of the caches of the tokens.
C28_WordsOfTokens ==
    \A k \in 1..Len(accesses) :
        (pc = "tokenized" /\ accesses[k].target = "Doc" /\ accesses[k].name = "words")
        => /\ accesses[k].err = "none"
           /\ "words" \in DOMAIN doc.lazy_attributes
           /\ squeeze_words(doc.lazy_attributes["words"], None, None).words
                 = doc.lazy_attributes["words"]
           /\ doc_tokens(doc) /= <<>> => "Token" \in DOMAIN World.cache

(***************************************************************************)
(* RepeatedPattern.match_from step by step: a caller drains the generator  *)
(* of a quantifier; `call` holds the chain of its recursive generators     *)
(* (frames, the innermost last) and what it has yielded so far.  The       *)
(* generator of the subpattern of a frame is drained at once (items).  A   *)
(* chain of MaxDepth generators is as deep as the interpreter lets         *)
(* recursion go: one more call raises RecursionError.                      *)
(***************************************************************************)
MaxDepth == 5

RepeatTexts == {<<":", ":", ":">>, <<"a", " ", "1">>, <<"a">>}

Optional(x) == getitem_slice(x, <<0>>, <<1>>)

\* A token predicate, and two Sequences that match the empty span: one
\* optional element, and two elements both optional.
RepeatSubs ==
    {Colon, A, Pattern(<<Optional(A)>>, SPACES, None),
     Pattern(<<Optional(A), Optional(One)>>, SPACES, None)}

Repeated ==
    {getitem_slice(x, lower, upper) :
        x \in RepeatSubs, lower \in {None, <<1>>}, upper \in {None, <<2>>}}

InitRepeat ==
    /\ doc \in {Doc(t) : t \in RepeatTexts}
    /\ NoMatch
    /\ NoAccess
    /\ NoQuery

\* What self.subpattern.match_from yields from each position of the
\* document (a pure function of the position, kept with the call).
SubMatches(p, d, fwd) ==
    [position \in 0..Len(d.text) |-> match_from(p.subpattern, d, position, fwd, {}).out]

\* A new generator self.match_from(doc_position, forward, previously_matched,
\* min_matches, max_matches), about to start its loop over the subpattern.
Frame(matches, position, previously_matched, min_matches, max_matches) ==
    [position |-> position, previously_matched |-> previously_matched,
     min_matches |-> min_matches, max_matches |-> max_matches,
     items |-> matches[position], i |-> 1]

\* The caller starts to drain p.match_from(doc[position], forward).
RepeatedCall(p, position, fwd) ==
    /\ pc = "idle"
    /\ doc' = Doc_with_tokens(doc)
    /\ forward' = fwd
    /\ call' = [kind |-> "generator", pattern |-> p, position |-> position,
                forward |-> fwd, out |-> <<>>, err |-> "none",
                matches |-> SubMatches(p, doc, fwd),
                frames |-> <<Frame(SubMatches(p, doc, fwd), position,
                                   Span(doc.id, position, position, NoAttributes),
                                   p.arity_min, p.arity_max)>>]
    /\ pc' = "running"
    /\ UNCHANGED <<pattern, tok_i, attempted, results, added, lazy_vars, query_vars>>

\* The innermost generator takes the next match of its subpattern (lines
\* 91-106): it yields the accumulated span when min_matches <= 1 and then
\* calls itself from next_position, unless max_matches is used up.
RepeatedNext ==
    /\ pc = "running"
    /\ LET n == Len(call.frames)
           f == call.frames[n]
       IN /\ f.i <= Len(f.items)
          /\ LET item == f.items[f.i]
                 matched == IF forward THEN Span_add(f.previously_matched, item.sp)
                            ELSE Span_add(item.sp, f.previously_matched)
                 out == IF f.min_matches <= 1
                        THEN Append(call.out, Yield(matched, item.np)) ELSE call.out
                 advanced == [call.frames EXCEPT ![n].i = @ + 1]
             IN IF f.max_matches /= None /\ ~(f.max_matches[1] > 1)
                THEN /\ call' = [call EXCEPT !.out = out, !.frames = advanced]
                     /\ pc' = pc
                ELSE IF n >= MaxDepth
                THEN /\ call' = [call EXCEPT !.out = out, !.frames = <<>>,
                                             !.err = "RecursionError"]
                     /\ pc' = "RecursionError"
                ELSE /\ call' = [call EXCEPT
                            !.out = out,
                            !.frames = Append(advanced,
                                Frame(call.matches, item.np, matched,
                                      Max(1, f.min_matches - 1),
                                      IF f.max_matches = None THEN None
                                      ELSE <<f.max_matches[1] - 1>>))]
                     /\ pc' = pc
    /\ UNCHANGED <<doc, pattern, forward, tok_i, attempted, results, added, lazy_vars, query_vars>>

\* The subpattern of the innermost generator is exhausted (lines 107-108):
\* with min_matches == 0 it yields previously_matched, then it returns to
\* the generator that called it, or to the caller.
RepeatedReturn ==
    /\ pc = "running"
    /\ LET n == Len(call.frames)
           f == call.frames[n]
       IN /\ f.i > Len(f.items)
          /\ call' = [call EXCEPT
                !.out = IF f.min_matches = 0
                        THEN Append(@, Yield(f.previously_matched, f.position)) ELSE @,
                !.frames = SubSeq(@, 1, n - 1)]
          /\ pc' = IF n = 1 THEN "done" ELSE pc
    /\ UNCHANGED <<doc, pattern, forward, tok_i, attempted, results, added, lazy_vars, query_vars>>

NextRepeat ==
    \/ /\ pc = "idle"
       /\ \E p \in Repeated, position \in 0..Len(doc.text), fwd \in BOOLEAN :
             RepeatedCall(p, position, fwd)
    \/ RepeatedNext
    \/ RepeatedReturn

SpecRepeat == InitRepeat /\ [][NextRepeat]_vars

\* The caller consumes the generator fully: once it has started to drain
\* it, it keeps pulling while the generator has a step to take.
SpecRepeatLive == SpecRepeat /\ WF_vars(RepeatedNext \/ RepeatedReturn)

\* The generator has returned and has yielded what RepeatedPattern.match_from
\* yields as a whole.
RepeatedAsWhole ==
    pc = "done"
    => call.out = match_from(call.pattern, doc, call.position, call.forward, {}).out

\* C29: fully consuming match_from of a pattern on a finite document
\* terminates: the generator returns after finitely many results, also for
\* an unbounded quantifier around a sub-pattern that matches the empty span.
C29_Terminates == (pc = "running") ~> (pc = "done")

\* The Sequence p with the filler its name stands for given by value:
\* isspace[:] for "SPACES", no filler for any other name.
ByValue(p) ==
    Pattern(p.subpatterns,
            IF p.allow_inbetween.name = "SPACES"
            THEN getitem_slice(TokenPattern(<<>>, FALSE, <<>>, <<>>, <<TRUE>>, <<>>, <<>>),
                               <<>>, <<>>)
            ELSE AllowNone,
            p.as_attribute)

NamedFillerCall ==
    /\ pc = "called"
    /\ call.kind = "match_from"
    /\ call.pattern.kind = "Pattern"
    /\ call.pattern.allow_inbetween.kind = "str"

\* C30: a Sequence with its filler given by name matches as the Sequence
\* with the filler the name stands for: zero or more whitespace tokens for
\* "SPACES", no filler (the elements abut) for a name the registry does not
\* know, which raises no error.  The name is resolved when a gap has to be
\* matched: after the call the filler is still the name, or what the name
\* stands for, the latter whenever a sequence of two or more elements
\* yielded a match.
C30_FillerByName ==
    NamedFillerCall
    => LET p == call.pattern
           unknown == p.allow_inbetween.name /= "SPACES"
           r == match_from(ByValue(p), doc, call.position, call.forward, {})
       IN /\ call.out = r.out
          /\ call.err = r.err
          /\ (unknown /\ call.err = "none")
             => \A i \in 1..Len(call.out) :
                   call.out[i].np \in AbutEnds(Traversal(p.subpatterns, call.forward),
                                               doc, call.position, call.forward, 1)
          /\ (unknown /\ \A k \in 1..Len(p.subpatterns) : p.subpatterns[k].kind = "TokenPattern")
             => call.err = "none"
          /\ pattern.allow_inbetween \in {p.allow_inbetween, ByValue(p).allow_inbetween}
          /\ (Len(p.subpatterns) >= 2 /\ Len(call.out) > 0)
             => pattern.allow_inbetween = ByValue(p).allow_inbetween

\* A Sequence of two elements with a filler name the registry does not know
\* has matched the abutting tokens of "a1" without an error, and its filler
\* is no pattern now.
C30_Witness ==
    /\ NamedFillerCall
    /\ call.pattern.allow_inbetween.name = "NUMBER"
    /\ Len(call.pattern.subpatterns) = 2
    /\ doc.text = <<"a", "1">>
    /\ call.err = "none"
    /\ Len(call.out) = 1
    /\ span_len(call.out[1].sp) = 2
    /\ pattern.allow_inbetween = AllowNone

====
